---- MODULE Spec2Model ----
(***************************************************************************)
(* A model of the ct indexing daemon (eliotbo/ct):                         *)
(*   - the per-connection request loop of the IPC server                   *)
(*     (bins/ct-daemon/src/server.rs, state.rs, libs/ct-protocol),         *)
(*   - the index cycle and the symbol store                                *)
(*     (libs/ct-indexer/src/lib.rs, libs/ct-db, libs/ct-core),             *)
(*   - the file watcher task (libs/ct-indexer/src/watcher.rs) and the      *)
(*     daemon's main (bins/ct-daemon/src/main.rs).                         *)
(*   - the request handlers and the queries they run                       *)
(*     (bins/ct-daemon/src/state.rs, libs/ct-db/src/queries.rs).           *)
(* Four specifications share the variables: ConnSpec, IndexSpec, WatchSpec *)
(* and QuerySpec; each leaves the other subsystems' variables unchanged.   *)
(***************************************************************************)
EXTENDS Naturals, Integers, Sequences, FiniteSets, TLC

VARIABLES
    \* ---- IPC connections (server.rs) ----
    inbuf,        \* [Conns -> Seq(Line)]   lines sent by the client, not yet read
    closed,       \* [Conns -> BOOLEAN]     the client has shut its sending side (EOF follows)
    cpc,          \* [Conns -> position of the connection task in handle_connection]
    request,      \* [Conns -> the decoded Request being served, or NoRequest]
    response,     \* [Conns -> the Response about to be written, or NoResponse]
    out,          \* [Conns -> Seq(Response)] response lines written to the client
    readlog,      \* [Conns -> Seq(Line)]   history: the lines read_line returned
    mutex,        \* holder of Arc<Mutex<DaemonState>>: a connection, or NoHolder
    handler_log,  \* history: one entry per DaemonState::handle_request call
    \* ---- symbol store and indexer (ct-db, ct-indexer) ----
    store,        \* the committed content of the store file
    db,           \* the indexer connection's view of the store (its open transaction included)
    in_tx,        \* the indexer connection has an open transaction
    ipc,          \* position of the daemon process in main / index_workspace
    member_i,     \* index of the workspace member being indexed
    krate,        \* the parsed rustdoc blob of the member being indexed, or NoKrate
    pending,      \* ids of krate.index not yet visited by the loop of process_rustdoc_data
    file_cache,   \* Indexer.file_cache: filename -> file id
    crate_cache,  \* Indexer.crate_cache: crate name -> crate id
    tx_base,      \* history: the view when the running cycle's transaction began
    last_insert,  \* history: the last insert_symbol call and its outcome
    cycles_ok,    \* history: number of index cycles that returned Ok
    runs,         \* number of daemon runs started
    \* ---- file watcher (watcher.rs) and main ----
    wpc,          \* position of the watcher task
    wchan,        \* the mpsc channel of WatcherCommand, as a sequence
    raw_events,   \* notify events queued on the FileWatcher's std channel
    fs_changed,   \* history: qualifying paths changed on disk since the watcher started
    delivered,    \* history: paths delivered to the daemon core in a batch
    reindexed,    \* history: paths an incremental reindex has written to the store for
    mpc,          \* position of main after the initial index
    stop_results, \* history: what each call of WatcherHandle::stop returned
    spc,          \* position of the accept loop task (server.rs)
    schan,        \* number of messages in the shutdown channel (capacity 1)
    parked,       \* [Conns -> the line at which the task found the mutex held, 0 if none]
    inflight,     \* history: [Conns -> the line read but unanswered at the shutdown signal]
    \* ---- one request served by the daemon core (state.rs, queries.rs) ----
    qreq,         \* the Command last handed to DaemonState::handle_request, or NoCommand
    qresp,        \* the envelope it was answered with, or NoOutcome
    config,       \* DaemonState.config: the limits loaded by main
    \* ---- IpcClient (libs/ct-core/src/transport.rs), one per connection ----
    kpc,          \* [Conns -> position of the client in IpcClient::send_request]
    cread,        \* [Conns -> number of response lines taken off the stream]
    cret,         \* history: [Conns -> what each call of send_request returned]
    \* ---- one message through the codec (libs/ct-protocol/src/lib.rs) ----
    pmsg,         \* the Response built, or NoMsg
    pline,        \* what serialize_message returned for it, or NoWire
    pparsed,      \* what deserialize_message returned for that line, or NoParsed
    \* ---- the Indexer (libs/ct-indexer/src/lib.rs:70-78) ----
    indexer,      \* its filters: [filter_module, filter_struct, include_derives]
    \* ---- one item through the status detection (lib.rs:553-558, 705-739) ----
    sdisk,        \* the files on disk: a set of [filename, content, lines]
    skind,        \* the kind of the item
    sspan,        \* its span
    sstatus,      \* "" before the detection, then its outcome
    \* ---- one call of FileWatcher::collect_changes (watcher.rs:39-80) ----
    collected,    \* TRUE once the call has returned
    consumed,     \* history: the events the call took from rx
    changed_files, \* the list it returned
    \* ---- the host the client and the daemons run on ----
    os,           \* the platform of the build: "unix" or "windows"
    ws_fingerprint, \* [WorkspaceRoots -> compute_workspace_fingerprint of the root]
    endpoint,     \* [WorkspaceRoots -> the socket path or pipe name computed, "" before]
    sockfile,     \* the socket file of the workspace: the daemon whose listener it
                  \* names, 0 when the file does not exist
    daemons,      \* [Daemons -> "none", "starting", "listening", "exited"]
    ct,           \* the `ct daemon start` process: [pc, phase, attempt, conn_to,
                  \* spawned, exit_code, running]
    run,          \* a `ct <query command>` process: [pc, cmd, outcome, resp, exit_code]
    member_name,  \* the package name of the workspace member being documented
    doc_dir,      \* the file names present in <workspace>/target/doc
    rustdoc_json  \* the result of generate_rustdoc_json: [pc, status_ok, ok, path]

connVars  == <<inbuf, closed, cpc, request, response, out, readlog, mutex, handler_log>>
indexVars == <<store, db, in_tx, ipc, member_i, krate, pending, file_cache, crate_cache,
               tx_base, last_insert, cycles_ok, runs>>
srvVars   == <<spc, schan, parked, inflight>>
mainVars  == <<stop_results, srvVars>>
watchVars == <<wpc, wchan, raw_events, fs_changed, delivered, reindexed, mpc, mainVars>>
queryVars == <<qreq, qresp, config>>
clientVars == <<kpc, cread, cret>>
protoVars == <<pmsg, pline, pparsed>>
indexerVars == <<indexer>>
statusVars == <<sdisk, skind, sspan, sstatus>>
collectVars == <<collected, consumed, changed_files>>
endpointVars == <<os, ws_fingerprint, endpoint>>
hostVars  == <<sockfile, daemons, ct, run>>
toolVars  == <<member_name, doc_dir, rustdoc_json>>
cliVars   == <<endpointVars, hostVars, toolVars>>
vars      == <<connVars, indexVars, watchVars, queryVars, clientVars, protoVars, indexerVars,
               statusVars, collectVars, cliVars>>

-----------------------------------------------------------------------------
(* Bounds of the model *)

\* total number of lines the clients send over all connections
MaxLines == 2
\* number of daemon runs (each run performs one full index cycle)
MaxRuns == 2
\* number of raw file-system events the watcher model receives
MaxEvents == 2
\* number of calls of WatcherHandle::stop
MaxStops == 3

Conns == {"c1", "c2"}
NoHolder == "none"

-----------------------------------------------------------------------------
(* Strings: the operations of str and of SQLite text the code relies on *)

\* the absent value of an Option<String>
NoName == "<None>"

\* str::starts_with, str::contains
StartsWith(str, prefix) ==
    Len(prefix) <= Len(str) /\ SubSeq(str, 1, Len(prefix)) = prefix
Contains(str, pat) ==
    \E i \in 1..(Len(str) + 1) :
        i + Len(pat) - 1 <= Len(str) /\ SubSeq(str, i, i + Len(pat) - 1) = pat

CharAt(str, i) == SubSeq(str, i, i)

\* std::cmp::min
Min(a, b) == IF a < b THEN a ELSE b

\* the characters of the model's texts that bytewise (BINARY) order and ASCII
\* case folding apply to, in ASCII order
Ascii == "%.0123456789:ABCDEFGHIJKLMNOPQRSTUVWXYZ_abcdefghijklmnopqrstuvwxyz"
Upper == "ABCDEFGHIJKLMNOPQRSTUVWXYZ"
Lower == "abcdefghijklmnopqrstuvwxyz"
Digits == "0123456789"

IndexIn(alphabet, ch) ==
    IF \E i \in 1..Len(alphabet) : CharAt(alphabet, i) = ch
    THEN CHOOSE i \in 1..Len(alphabet) : CharAt(alphabet, i) = ch
    ELSE 0

\* ASCII lower-casing of one character, as SQLite's LIKE folds case
FoldChar(ch) == IF IndexIn(Upper, ch) = 0 THEN ch ELSE CharAt(Lower, IndexIn(Upper, ch))

RECURSIVE FoldCase(_)
FoldCase(str) == IF str = "" THEN ""
                 ELSE FoldChar(CharAt(str, 1)) \o FoldCase(SubSeq(str, 2, Len(str)))

\* memcmp order of two texts (SQLite's default BINARY collation)
RECURSIVE TextLess(_, _)
TextLess(a, b) ==
    IF b = "" THEN FALSE
    ELSE IF a = "" THEN TRUE
    ELSE IF CharAt(a, 1) = CharAt(b, 1)
         THEN TextLess(SubSeq(a, 2, Len(a)), SubSeq(b, 2, Len(b)))
    ELSE IndexIn(Ascii, CharAt(a, 1)) < IndexIn(Ascii, CharAt(b, 1))

\* str::parse::<u32> of a text of decimal digits: [ok, val]
RECURSIVE ParseDigits(_, _)
ParseDigits(str, acc) ==
    IF str = "" THEN [ok |-> TRUE, val |-> acc]
    ELSE IF IndexIn(Digits, CharAt(str, 1)) = 0 THEN [ok |-> FALSE, val |-> 0]
    ELSE ParseDigits(SubSeq(str, 2, Len(str)), acc * 10 + IndexIn(Digits, CharAt(str, 1)) - 1)
ParseU32(str) == IF str = "" THEN [ok |-> FALSE, val |-> 0] ELSE ParseDigits(str, 0)

\* SQLite's `text LIKE pattern` without ESCAPE: % matches any run of
\* characters, _ any one character, other characters themselves up to
\* ASCII case
RECURSIVE Like(_, _)
Like(text, pattern) ==
    IF pattern = "" THEN text = ""
    ELSE LET pc == CharAt(pattern, 1)
             prest == SubSeq(pattern, 2, Len(pattern))
         IN  IF pc = "%"
             THEN \E k \in 0..Len(text) : Like(SubSeq(text, k + 1, Len(text)), prest)
             ELSE /\ text # ""
                  /\ pc = "_" \/ FoldChar(pc) = FoldChar(CharAt(text, 1))
                  /\ Like(SubSeq(text, 2, Len(text)), prest)

-----------------------------------------------------------------------------
(* Protocol: libs/ct-protocol/src/lib.rs *)

PROTOCOL_VERSION == 1

\* the cmd discriminators of enum Command (serde tag = "cmd", snake_case)
Commands == {"find", "doc", "ls", "export", "reindex", "status", "diag", "bench"}

ErrorCodes == {"INVALID_ARG", "NOT_FOUND", "DAEMON_UNAVAILABLE", "INDEX_MISMATCH",
               "INTERNAL_ERROR", "PROTOCOL_ERROR"}

\* A line on the wire.  enc: whether its bytes are valid UTF-8; body: what
\* line.trim() is (empty, text that is no JSON object, a JSON object);
\* for a JSON object: the "cmd" tag of its "cmd" member (Request.cmd is a
\* Command, tagged by "cmd"; the variant's required fields are present),
\* whether that member has a "name", the value of "request_id" ("" when the
\* field is absent) and of "protocol_version" (0 when the field is absent).
WireLine(enc, body, cmd, name, rid, ver) ==
    [enc |-> enc, body |-> body, cmd |-> cmd, name |-> name, rid |-> rid, ver |-> ver]

Lines == {
    WireLine("utf8", "blank",   "",      FALSE, "",   0),
    WireLine("utf8", "garbage", "",      FALSE, "",   0),
    WireLine("bad",  "garbage", "",      FALSE, "",   0),
    WireLine("utf8", "json",    "bogus", FALSE, "r1", 1),
    WireLine("utf8", "json",    "find",  FALSE, "r2", 1),
    WireLine("utf8", "json",    "find",  TRUE,  "r3", 1),
    WireLine("utf8", "json",    "find",  TRUE,  "r4", 2),
    WireLine("utf8", "json",    "doc",   FALSE, "r5", 0) }

NoRequest  == [cmd |-> "", name |-> FALSE, request_id |-> "", protocol_version |-> 0]
NoResponse == [kind |-> "", request_id |-> "", err_code |-> "", answers |-> 0]

\* deserialize_message::<Request>: serde_json::from_str on the trimmed line
deserialize_message(l) ==
    IF l.body # "json" THEN [ok |-> FALSE, req |-> NoRequest]
    ELSE IF l.cmd \notin Commands THEN [ok |-> FALSE, req |-> NoRequest]
    ELSE IF l.rid = "" THEN [ok |-> FALSE, req |-> NoRequest]
    ELSE [ok |-> TRUE,
          req |-> [cmd |-> l.cmd, name |-> l.name, request_id |-> l.rid,
                   protocol_version |-> IF l.ver = 0 THEN PROTOCOL_VERSION ELSE l.ver]]

\* Response::success / Response::error; answers is history: the index in
\* readlog of the line the response was computed for
ResponseSuccess(request_id, k) ==
    [kind |-> "Success", request_id |-> request_id, err_code |-> "", answers |-> k]
ResponseError(request_id, err_code, k) ==
    [kind |-> "Error", request_id |-> request_id, err_code |-> err_code, answers |-> k]

-----------------------------------------------------------------------------
(* Symbol store: libs/ct-db/src/lib.rs, migrations.rs *)

CURRENT_VERSION == 1

\* the meta table has no schema_version row (or the file has no meta table)
NoMeta == "<none>"

\* A store file: schema_version is the TEXT val of meta's schema_version row
\* (NoMeta: no such row or no meta table, the file is new), and the tables
\* are sequences of rows; a row's INTEGER PRIMARY KEY id is its position
\* (rows are never deleted, so rowid = max(rowid) + 1 = Len + 1).
EmptyStore == [schema_version |-> NoMeta, crates |-> <<>>, files |-> <<>>,
               symbols |-> <<>>, impls |-> <<>>]

\* Database::get_schema_version: 0 without a meta table or row, else
\* val.parse().ok().unwrap_or(0)
get_schema_version(s) ==
    IF s.schema_version = NoMeta THEN 0
    ELSE IF ParseU32(s.schema_version).ok THEN ParseU32(s.schema_version).val
    ELSE 0

\* Database::set_schema_version: INSERT OR REPLACE the row with version.to_string()
set_schema_version(s, version) == [s EXCEPT !.schema_version = ToString(version)]

\* Database::open -> ensure_schema.  io_ok: whether SQLite can open and read
\* the file.  Creates the schema (CREATE TABLE IF NOT EXISTS) and records
\* version 1 when get_schema_version is 0.
DatabaseOpen(s, io_ok) ==
    IF ~io_ok THEN [ok |-> FALSE, err |-> "Sqlite", store |-> s]
    ELSE IF get_schema_version(s) = 0
         THEN [ok |-> TRUE, err |-> "", store |-> set_schema_version(s, 1)]
    ELSE IF get_schema_version(s) < CURRENT_VERSION
         THEN [ok |-> FALSE, err |-> "SchemaMismatch", store |-> s]
    ELSE [ok |-> TRUE, err |-> "", store |-> s]

RowIds(table) == 1..Len(table)

-----------------------------------------------------------------------------
(* SQL text: the WHERE clauses that queries.rs assembles with format! are
   run by SQLite as text.  A clause is lexed into string literals ('..'),
   the symbols = ( ) and words (keywords, column names, numbers), and
   evaluated on a row with SQLite's precedence: = over AND over OR. *)

SqlDelimiters == {" ", "'", "=", "(", ")"}

\* the end of the word starting at i
RECURSIVE WordEnd(_, _)
WordEnd(text, i) ==
    IF i + 1 > Len(text) \/ CharAt(text, i + 1) \in SqlDelimiters THEN i
    ELSE WordEnd(text, i + 1)

\* the position of the quote closing the literal opened at i, 0 if none
RECURSIVE QuoteEnd(_, _)
QuoteEnd(text, i) ==
    IF i > Len(text) THEN 0
    ELSE IF CharAt(text, i) = "'" THEN i
    ELSE QuoteEnd(text, i + 1)

\* [ok, toks]: ok is FALSE for an unterminated literal
RECURSIVE SqlLex(_, _, _)
SqlLex(text, i, toks) ==
    IF i > Len(text) THEN [ok |-> TRUE, toks |-> toks]
    ELSE LET ch == CharAt(text, i) IN
         IF ch = " " THEN SqlLex(text, i + 1, toks)
         ELSE IF ch = "'"
              THEN LET j == QuoteEnd(text, i + 1) IN
                   IF j = 0 THEN [ok |-> FALSE, toks |-> toks]
                   ELSE SqlLex(text, j + 1,
                               Append(toks, [t |-> "lit", v |-> SubSeq(text, i + 1, j - 1)]))
         ELSE IF ch \in {"=", "(", ")"}
              THEN SqlLex(text, i + 1, Append(toks, [t |-> "sym", v |-> ch]))
         ELSE LET j == WordEnd(text, i) IN
              SqlLex(text, j + 1, Append(toks, [t |-> "word", v |-> SubSeq(text, i, j)]))

SqlColumns == {"visibility", "status", "kind", "name", "path"}

\* a token as an operand: a literal, a column of the row, or a number
SqlOperand(tok, row) ==
    IF tok.t = "lit" THEN [ok |-> TRUE, ty |-> "text", v |-> tok.v]
    ELSE IF tok.t = "word" /\ tok.v \in SqlColumns
         THEN [ok |-> TRUE, ty |-> "text", v |-> row[tok.v]]
    ELSE IF tok.t = "word" /\ ParseU32(tok.v).ok THEN [ok |-> TRUE, ty |-> "num", v |-> tok.v]
    ELSE [ok |-> FALSE, ty |-> "", v |-> ""]

SqlTruth(b) == IF b THEN "T" ELSE "F"

\* the atom starting at token i: a parenthesis, AND, OR, a comparison a = b
\* or an operand taken as a truth value (non-zero digits; text that is no
\* number counts as 0), as [ok, item, next]
SqlAtom(toks, i, row) ==
    LET tok == toks[i]
        a == SqlOperand(tok, row)
        b == SqlOperand(toks[i + 2], row)
        fail == [ok |-> FALSE, item |-> "", next |-> i]
    IN  IF (tok.t = "sym" /\ tok.v \in {"(", ")"}) \/ (tok.t = "word" /\ tok.v \in {"AND", "OR"})
        THEN [ok |-> TRUE, item |-> tok.v, next |-> i + 1]
        ELSE IF ~a.ok THEN fail
        ELSE IF i + 1 <= Len(toks) /\ toks[i + 1] = [t |-> "sym", v |-> "="]
             THEN IF i + 2 > Len(toks) \/ ~b.ok THEN fail
                  ELSE [ok |-> TRUE, item |-> SqlTruth(a.ty = b.ty /\ a.v = b.v),
                        next |-> i + 3]
        ELSE [ok |-> TRUE, item |-> SqlTruth(ParseU32(a.v).ok /\ ParseU32(a.v).val # 0),
              next |-> i + 1]

\* the atoms of the tokens from i on, as [ok, atoms]
RECURSIVE SqlAtoms(_, _, _, _)
SqlAtoms(toks, i, row, acc) ==
    IF i > Len(toks) THEN [ok |-> TRUE, atoms |-> acc]
    ELSE IF ~SqlAtom(toks, i, row).ok THEN [ok |-> FALSE, atoms |-> <<>>]
    ELSE SqlAtoms(toks, SqlAtom(toks, i, row).next, row,
                  Append(acc, SqlAtom(toks, i, row).item))

\* truth values joined by AND and OR, AND binding tighter: true when some
\* maximal run of AND-joined values is all true
SqlFlat(atoms) ==
    LET n == Len(atoms)
        odd == {k \in 1..n : k % 2 = 1}
        joined(x, y) == \A k \in x..y : k % 2 = 0 => atoms[k] = "AND"
    IN  IF n % 2 = 1 /\ \A k \in 1..n : IF k % 2 = 1 THEN atoms[k] \in {"T", "F"}
                                        ELSE atoms[k] \in {"AND", "OR"}
        THEN [ok |-> TRUE,
              val |-> \E x \in odd :
                         /\ x = 1 \/ atoms[x - 1] = "OR"
                         /\ \A y \in odd : (y >= x /\ joined(x, y)) => atoms[y] = "T"]
        ELSE [ok |-> FALSE, val |-> FALSE]

\* the innermost parenthesised group is replaced by its value until none is left
RECURSIVE SqlReduce(_)
SqlReduce(atoms) ==
    LET closing == {k \in 1..Len(atoms) : atoms[k] = ")"}
        q == CHOOSE k \in closing : \A j \in closing : k <= j
        opening == {k \in 1..Len(atoms) : atoms[k] = "(" /\ (closing # {} => k < q)}
        p == CHOOSE k \in opening : \A j \in opening : j <= k
        inner == SqlFlat(SubSeq(atoms, p + 1, q - 1))
    IN  IF closing = {} /\ opening = {} THEN SqlFlat(atoms)
        ELSE IF closing = {} \/ opening = {} \/ ~inner.ok THEN [ok |-> FALSE, val |-> FALSE]
        ELSE SqlReduce(SubSeq(atoms, 1, p - 1) \o <<SqlTruth(inner.val)>>
                       \o SubSeq(atoms, q + 1, Len(atoms)))

\* the lexed text "WHERE <expr>" on a row: [ok, val]; ok is FALSE when
\* SQLite rejects the text
SqlWhereToks(lexed, row) ==
    LET parsed == SqlAtoms(lexed.toks, 2, row, <<>>) IN
    IF ~lexed.ok \/ lexed.toks = <<>> \/ lexed.toks[1] # [t |-> "word", v |-> "WHERE"]
       \/ ~parsed.ok
    THEN [ok |-> FALSE, val |-> FALSE]
    ELSE SqlReduce(parsed.atoms)

SqlWhere(text, row) == SqlWhereToks(SqlLex(text, 1, <<>>), row)

\* a row to prepare a statement against: syntax does not depend on the row
SqlAnyRow == [c \in SqlColumns |-> ""]

\* the rowids a WHERE text selects, in rowid order
SqlPrepares(text) == SqlWhere(text, SqlAnyRow).ok
SqlSelect(table, text) ==
    LET lexed == SqlLex(text, 1, <<>>)
    IN  {i \in RowIds(table) : SqlWhereToks(lexed, table[i]).val}

-----------------------------------------------------------------------------
(* Queries: libs/ct-db/src/queries.rs.  An absent Option<&str> is NoName. *)

\* hex::encode of the bytes read back from the BLOB column: insert_symbol
\* stores the bytes of the id's text, so the text read is the hex of them
HexEncode(bytes) == <<"hex", bytes>>

\* the Symbol a query builds from a row (queries.rs:44-60, 76-92)
SymbolOfRow(row) == [row EXCEPT !.symbol_id = HexEncode(row.symbol_id)]

\* ORDER BY name, path, span_start
ByNamePathSpan(a, b) ==
    \/ TextLess(a.name, b.name)
    \/ a.name = b.name /\ TextLess(a.path, b.path)
    \/ a.name = b.name /\ a.path = b.path /\ a.span_start < b.span_start

\* ORDER BY path
ByPath(a, b) == TextLess(a.path, b.path)

\* the rows of `rowids` as a sequence in the order of the ORDER BY clause
\* (key: "path" or "name, path, span_start"), ties in rowid order
OrderBy(table, rowids, key) ==
    LET less(a, b) == IF key = "path" THEN ByPath(a, b) ELSE ByNamePathSpan(a, b)
        before(i, j) == less(table[i], table[j]) \/ (~less(table[j], table[i]) /\ i < j)
        first(S) == CHOOSE i \in S : \A j \in S \ {i} : before(i, j)
        sorted[S \in SUBSET rowids] ==
            IF S = {} THEN <<>> ELSE <<table[first(S)]>> \o sorted[S \ {first(S)}]
    IN  sorted[rowids]

\* LIMIT n
Limit(rows, n) == SubSeq(rows, 1, Min(n, Len(rows)))

\* the Symbols of a sequence of rows
SymbolsOfRows(rows) == [k \in 1..Len(rows) |-> SymbolOfRow(rows[k])]

\* find_symbols_by_name: name LIKE '%' || name || '%' with bound parameters
find_symbols_by_name(table, name, kind, vis, status, limit) ==
    SymbolsOfRows(Limit(OrderBy(table,
                                {i \in RowIds(table) :
                                    /\ Like(table[i].name, "%" \o name \o "%")
                                    /\ kind # NoName => table[i].kind = kind
                                    /\ (vis # NoName /\ vis # "all")
                                           => table[i].visibility = vis
                                    /\ status # NoName => table[i].status = status},
                                "name, path, span_start"),
                        limit))

\* find_symbol_by_path: query_row(..).optional(): the first row with that
\* path, <<>> for None
find_symbol_by_path(table, path) ==
    LET hits == {i \in RowIds(table) : table[i].path = path} IN
    IF hits = {} THEN <<>>
    ELSE << SymbolOfRow(table[CHOOSE i \in hits : \A j \in hits : i <= j]) >>

\* get_status_counts: the text of the COUNT(*) query for a status ("" for
\* the total), built with format! from vis (queries.rs:102-128)
StatusWhere(vis, status) ==
    (IF vis # NoName /\ vis # "all" THEN "WHERE visibility = '" \o vis \o "'" ELSE "WHERE 1=1")
    \o (IF status = "" THEN "" ELSE " AND status = '" \o status \o "'")

\* StatusCounts from the four counts n, when each statement prepares
StatusCountsOf(prepares, n) ==
    IF ~prepares
    THEN [ok |-> FALSE, total |-> 0, implemented |-> 0, unimplemented |-> 0, todo |-> 0]
    ELSE [ok |-> TRUE, total |-> n[""], implemented |-> n["implemented"],
          unimplemented |-> n["unimplemented"], todo |-> n["todo"]]

get_status_counts(table, vis) ==
    StatusCountsOf(\A status \in {"", "implemented", "unimplemented", "todo"} :
                       SqlPrepares(StatusWhere(vis, status)),
                   [status \in {"", "implemented", "unimplemented", "todo"} |->
                       Cardinality(SqlSelect(table, StatusWhere(vis, status)))])

\* get_status_items: the WHERE text assembled at queries.rs:146-162
StatusItemsWhere(vis, unimplemented, todo) ==
    "WHERE 1=1"
    \o (IF vis # NoName /\ vis # "all" THEN " AND visibility = '" \o vis \o "'" ELSE "")
    \o (IF unimplemented /\ ~todo THEN " AND status = 'unimplemented'"
        ELSE IF todo /\ ~unimplemented THEN " AND status = 'todo'"
        ELSE IF unimplemented /\ todo THEN " AND (status = 'unimplemented' OR status = 'todo')"
        ELSE "")

\* the StatusItems of a sequence of rows (queries.rs:167-173)
StatusItemsOf(rows) ==
    [k \in 1..Len(rows) |->
        [path |-> rows[k].path, status |-> rows[k].status, kind |-> rows[k].kind]]

\* the statement selects by text w, ORDER BY path LIMIT limit
StatusItemsBy(table, w, limit) ==
    IF ~SqlPrepares(w) THEN [ok |-> FALSE, items |-> <<>>]
    ELSE [ok |-> TRUE,
          items |-> StatusItemsOf(Limit(OrderBy(table, SqlSelect(table, w), "path"), limit))]

get_status_items(table, vis, unimplemented, todo, limit) ==
    StatusItemsBy(table, StatusItemsWhere(vis, unimplemented, todo), limit)

-----------------------------------------------------------------------------
(* Daemon core: bins/ct-daemon/src/state.rs *)

\* the commands whose handler opens the store
OpensStore(req) ==
    \/ req.cmd = "find" /\ req.name
    \/ req.cmd \in {"status", "diag"}

\* DaemonState::handle_request: dispatch on request.cmd, then map the
\* handler's Result to a Response.  A handler's Ok is
\* Response::success("".to_string(), ..); only the Err arm uses
\* request.request_id.  k: history index of the line served.
handle_request(req, s, io_ok, k) ==
    LET opened == DatabaseOpen(s, io_ok) IN
    IF req.cmd = "find" /\ ~req.name
      THEN [resp |-> ResponseError(req.request_id, "INVALID_ARG", k), store |-> s]
    ELSE IF OpensStore(req)
      THEN IF opened.ok
             THEN [resp |-> ResponseSuccess("", k), store |-> opened.store]
             ELSE [resp |-> ResponseError(req.request_id, "INTERNAL_ERROR", k),
                   store |-> opened.store]
    ELSE [resp |-> ResponseSuccess("", k), store |-> s]

\* Config (libs/ct-core/src/config.rs): the two limits the handlers read
default_max_context_size == 16000
default_max_list == 200
DefaultConfig == [max_context_size |-> default_max_context_size, max_list |-> default_max_list]

\* an Option<bool> member of a Command: absent, false or true
OptBool == {"None", "false", "true"}

\* a Command as handle_request receives it: cmd is the variant, a member the
\* variant lacks or an absent Option<String> is NoName, an absent
\* Option<bool> is "None".  Command::Find carries no `all` member, so the
\* `all` that handle_find matches on is None.  module, struct_name and
\* include_derives are the filters that handle_reindex receives.
Command(cmd, name, path, kind, vis, unimplemented, todo, include_docs) ==
    [cmd |-> cmd, name |-> name, path |-> path, kind |-> kind, vis |-> vis,
     unimplemented |-> unimplemented, todo |-> todo, include_docs |-> include_docs,
     module |-> NoName, struct_name |-> NoName, include_derives |-> FALSE]

\* a reindex command with its filters
ReindexCommand(module, struct_name, include_derives) ==
    [Command("reindex", NoName, NoName, NoName, NoName, "None", "None", FALSE)
        EXCEPT !.module = module, !.struct_name = struct_name,
               !.include_derives = include_derives]

NoCounts == [total |-> 0, implemented |-> 0, unimplemented |-> 0, todo |-> 0]
NoDocSymbol == [path |-> NoName, signature |-> NoName, docs |-> NoName]

\* What a handler returns.  ok: Ok(Response::success(..)) or Err((err_msg,
\* err_code)), err_msg naming the DbError it wraps; the members of the json! data that the handlers fill: items,
\* counts, symbol, bundle (the serialized "bundle" value).  store: the file
\* after the handler; opened: whether the handler called Database::open.
HandlerOk(items, counts, symbol, bundle, s, opened) ==
    [ok |-> TRUE, err_msg |-> "", err_code |-> "", items |-> items, counts |-> counts,
     symbol |-> symbol, bundle |-> bundle, store |-> s, opened |-> opened]
HandlerErr(err_msg, err_code, s, opened) ==
    [ok |-> FALSE, err_msg |-> err_msg, err_code |-> err_code, items |-> <<>>, counts |-> NoCounts,
     symbol |-> NoDocSymbol, bundle |-> "", store |-> s, opened |-> opened]

\* state.rs:97-102: the match on (unimplemented, todo); NoName is None
status_filter_AbsentIsTrue(unimplemented, todo) ==
    IF unimplemented # "false" /\ todo # "false" THEN NoName
    ELSE IF unimplemented # "false" THEN "unimplemented"
    ELSE IF todo # "false" THEN "todo"
    ELSE "implemented"

status_filter(unimplemented, todo) ==
    IF unimplemented = "true" /\ todo = "true" THEN NoName
    ELSE IF unimplemented = "true" THEN "unimplemented"
    ELSE IF todo = "true" THEN "todo"
    ELSE "implemented"

\* state.rs:125-131: json!({path, span_start, span_end}) of each symbol
FindItems(symbols) ==
    [k \in 1..Len(symbols) |->
        [path |-> symbols[k].path, span_start |-> symbols[k].span_start,
         span_end |-> symbols[k].span_end]]

\* the part of handle_find after Database::open (state.rs:96-138)
FindInOpened(c, opened, cfg) ==
    IF ~opened.ok
    THEN HandlerErr("Database error: " \o opened.err, "INTERNAL_ERROR", opened.store, TRUE)
    ELSE HandlerOk(FindItems(IF c.name # NoName
                             THEN find_symbols_by_name(opened.store.symbols, c.name, c.kind,
                                                       c.vis,
                                                       status_filter(c.unimplemented, c.todo),
                                                       cfg.max_list)
                             ELSE <<>>),
                   NoCounts, NoDocSymbol, "", opened.store, TRUE)

\* the part of handle_find after the argument check (state.rs:93-138)
FindInStore(c, s, io_ok, cfg) == FindInOpened(c, DatabaseOpen(s, io_ok), cfg)

\* a handle_find that opens the store before it looks at its arguments
handle_find_OpenFirst(c, s, io_ok, cfg) ==
    IF c.name = NoName /\ c.path = NoName
    THEN HandlerErr("Must provide either name or path", "INVALID_ARG",
                    DatabaseOpen(s, io_ok).store, TRUE)
    ELSE FindInStore(c, s, io_ok, cfg)

\* DaemonState::handle_find
handle_find(c, s, io_ok, cfg) ==
    IF c.name = NoName /\ c.path = NoName
    THEN HandlerErr("Must provide either name or path", "INVALID_ARG", s, FALSE)
    ELSE FindInStore(c, s, io_ok, cfg)

\* DaemonState::handle_doc (a stub: the store is not read)
handle_doc(c, s, io_ok, cfg) ==
    HandlerOk(<<>>, NoCounts,
              [path |-> c.path, signature |-> "pub struct Example",
               docs |-> IF c.include_docs THEN "Example documentation" ELSE NoName],
              "", s, FALSE)

\* serde_json::to_string of the "bundle" value that handle_export builds
\* (serde_json::Map keeps its keys sorted)
BundleJson(path) ==
    "{\"children\":[],\"extern_refs\":[],\"impl_ranges\":[],"
    \o "\"invariants\":{\"range_1_based_inclusive\":true},\"order\":\"bfs\","
    \o "\"symbol\":{\"kind\":\"struct\",\"path\":\"" \o path
    \o "\",\"signature\":\"pub struct Example\"}}"

\* DaemonState::handle_export (a stub: neither the store nor the config is read)
handle_export(c, s, io_ok, cfg) ==
    HandlerOk(<<>>, NoCounts, NoDocSymbol, BundleJson(c.path), s, FALSE)

\* state.rs:264-270: the data of the status response, or the query's error
StatusData(counts, items, s) ==
    IF ~counts.ok \/ ~items.ok
    THEN HandlerErr("Query error: Sqlite", "INTERNAL_ERROR", s, TRUE)
    ELSE HandlerOk(items.items,
                   [total |-> counts.total, implemented |-> counts.implemented,
                    unimplemented |-> counts.unimplemented, todo |-> counts.todo],
                   NoDocSymbol, "", s, TRUE)

\* the part of handle_status after Database::open (state.rs:253-270)
StatusInStore(c, opened, cfg) ==
    IF ~opened.ok
    THEN HandlerErr("Database error: " \o opened.err, "INTERNAL_ERROR", opened.store, TRUE)
    ELSE StatusData(get_status_counts(opened.store.symbols, c.vis),
                    get_status_items(opened.store.symbols, c.vis,
                                     c.unimplemented = "true", c.todo = "true",
                                     cfg.max_list),
                    opened.store)

\* DaemonState::handle_status
handle_status(c, s, io_ok, cfg) == StatusInStore(c, DatabaseOpen(s, io_ok), cfg)

\* DaemonState::handle_diag: opens the store and counts its rows
handle_diag(c, s, io_ok, cfg) ==
    LET opened == DatabaseOpen(s, io_ok) IN
    IF ~opened.ok
    THEN HandlerErr("Database error: " \o opened.err, "INTERNAL_ERROR", opened.store, TRUE)
    ELSE HandlerOk(<<>>, NoCounts, NoDocSymbol, "", opened.store, TRUE)

\* DaemonState::handle_reindex (a stub: the filters are logged and echoed in
\* the response; no Indexer is built and no cycle is started or scheduled)
handle_reindex(c, s, io_ok, cfg) ==
    HandlerOk(<<>>, NoCounts, NoDocSymbol, "", s, FALSE)

\* handle_ls, handle_bench (stubs with constant data)
handle_stub(c, s, io_ok, cfg) ==
    HandlerOk(<<>>, NoCounts, NoDocSymbol, "", s, FALSE)

\* the match on request.cmd at state.rs:34-59
Dispatch(c, s, io_ok, cfg) ==
    CASE c.cmd = "find"   -> handle_find(c, s, io_ok, cfg)
      [] c.cmd = "doc"    -> handle_doc(c, s, io_ok, cfg)
      [] c.cmd = "export" -> handle_export(c, s, io_ok, cfg)
      [] c.cmd = "status" -> handle_status(c, s, io_ok, cfg)
      [] c.cmd = "diag"   -> handle_diag(c, s, io_ok, cfg)
      [] c.cmd = "reindex" -> handle_reindex(c, s, io_ok, cfg)
      [] OTHER            -> handle_stub(c, s, io_ok, cfg)

\* the match on result at state.rs:63-76, as the envelope the client gets:
\* kind is Success, Error or Decision (Response::decision has no caller)
Envelope(h) ==
    [kind |-> IF h.ok THEN "Success" ELSE "Error",
     err_msg |-> h.err_msg, err_code |-> h.err_code,
     items |-> h.items, counts |-> h.counts, symbol |-> h.symbol,
     bundle |-> h.bundle, opened |-> h.opened]


NoCommand == Command("none", NoName, NoName, NoName, NoName, "None", "None", FALSE)
NoOutcome == [kind |-> "none", err_msg |-> "", err_code |-> "", items |-> <<>>, counts |-> NoCounts,
              symbol |-> NoDocSymbol, bundle |-> "", opened |-> FALSE]

-----------------------------------------------------------------------------
(* IPC server: bins/ct-daemon/src/server.rs, handle_connection *)

LinesSent == LET n[S \in SUBSET Conns] ==
                   IF S = {} THEN 0
                   ELSE LET c == CHOOSE x \in S : TRUE
                        IN  Len(readlog[c]) + Len(inbuf[c])
                            + (IF cpc[c] = "failed" THEN 1 ELSE 0) + n[S \ {c}]
             IN  n[Conns]

\* the client writes one more line to the stream
ClientSend(c, l) ==
    /\ ~closed[c]
    /\ cpc[c] \notin {"done", "failed"}
    /\ LinesSent < MaxLines
    /\ inbuf' = [inbuf EXCEPT ![c] = Append(@, l)]
    /\ UNCHANGED <<closed, cpc, request, response, out, readlog, mutex, handler_log>>
    /\ UNCHANGED <<indexVars, watchVars, queryVars, clientVars, protoVars, indexerVars,
                   statusVars, collectVars, cliVars>>

\* the client shuts down its sending side: read_line returns 0 once inbuf is drained
ClientClose(c) ==
    /\ ~closed[c]
    /\ closed' = [closed EXCEPT ![c] = TRUE]
    /\ UNCHANGED <<inbuf, cpc, request, response, out, readlog, mutex, handler_log>>
    /\ UNCHANGED <<indexVars, watchVars, queryVars, clientVars, protoVars, indexerVars,
                   statusVars, collectVars, cliVars>>

\* variants of the match at server.rs:185-199: a loop that drops an
\* undecodable line without answering it, and one that hands it to the handler
ReadLineNext_NoAnswer(c, ok) == IF ok THEN "lock" ELSE "read"
ReadLineNext_Dispatch(c, ok) == "lock"

\* server.rs:185-199: where the task goes after deserialize_message: Ok(req)
\* falls through to the lock, Err(e) to writing the error response
ReadLineNext(c, ok) == IF ok THEN "lock" ELSE "write_error"

\* server.rs:177-199: line.clear(); read_line(..).await?; n == 0 -> break;
\* deserialize_message(line.trim()); on Err build the PROTOCOL_ERROR response
ReadLine(c) ==
    /\ cpc[c] = "read"
    /\ IF inbuf[c] = <<>>
       THEN /\ closed[c]
            /\ cpc' = [cpc EXCEPT ![c] = "done"]
            /\ UNCHANGED <<inbuf, request, response, readlog>>
       ELSE LET l == Head(inbuf[c])
                k == Len(readlog[c]) + 1
                d == deserialize_message(l)
            IN  /\ inbuf' = [inbuf EXCEPT ![c] = Tail(@)]
                /\ IF l.enc # "utf8"
                   THEN \* read_line fails with InvalidData; `?` returns Err
                        /\ cpc' = [cpc EXCEPT ![c] = "failed"]
                        /\ UNCHANGED <<request, response, readlog>>
                   ELSE /\ readlog' = [readlog EXCEPT ![c] = Append(@, l)]
                        /\ cpc' = [cpc EXCEPT ![c] = ReadLineNext(c, d.ok)]
                        /\ request' = [request EXCEPT ![c] = d.req]
                        /\ response' = [response EXCEPT ![c] =
                              IF d.ok THEN NoResponse
                              ELSE ResponseError("unknown", "PROTOCOL_ERROR", k)]
    /\ UNCHANGED <<closed, out, mutex, handler_log>>
    /\ UNCHANGED <<indexVars, watchVars, queryVars, clientVars, protoVars, indexerVars,
                   statusVars, collectVars, cliVars>>

\* a variant of server.rs:197: a loop that breaks after the PROTOCOL_ERROR response
AfterProtocolError_Break == "done"

\* server.rs:197: `continue`: the task is back at the head of the loop
AfterProtocolError == "read"

\* server.rs:194-197: write the PROTOCOL_ERROR line, flush, `continue`
WriteProtocolError(c) ==
    /\ cpc[c] = "write_error"
    /\ out' = [out EXCEPT ![c] = Append(@, response[c])]
    /\ response' = [response EXCEPT ![c] = NoResponse]
    /\ cpc' = [cpc EXCEPT ![c] = AfterProtocolError]
    /\ UNCHANGED <<inbuf, closed, request, readlog, mutex, handler_log>>
    /\ UNCHANGED <<indexVars, watchVars, queryVars, clientVars, protoVars, indexerVars,
                   statusVars, collectVars, cliVars>>

\* a variant of server.rs:204: a task that enters the handler without
\* waiting for the state to be free
LockState_NoWait(c) ==
    /\ cpc[c] = "lock"
    /\ mutex' = c
    /\ cpc' = [cpc EXCEPT ![c] = "handling"]
    /\ UNCHANGED <<inbuf, closed, request, response, out, readlog, handler_log>>
    /\ UNCHANGED <<indexVars, watchVars, queryVars, clientVars, protoVars, indexerVars,
                   statusVars, collectVars, cliVars>>

\* server.rs:204: state.lock().await
LockState(c) ==
    /\ cpc[c] = "lock"
    /\ mutex = NoHolder
    /\ mutex' = c
    /\ cpc' = [cpc EXCEPT ![c] = "handling"]
    /\ UNCHANGED <<inbuf, closed, request, response, out, readlog, handler_log>>
    /\ UNCHANGED <<indexVars, watchVars, queryVars, clientVars, protoVars, indexerVars,
                   statusVars, collectVars, cliVars>>

\* a variant of server.rs:203-206: a task that keeps the guard after the
\* handler has returned
HandleRequest_KeepsLock(c, io_ok) ==
    /\ cpc[c] = "handling"
    /\ mutex = c
    /\ LET k == Len(readlog[c])
           r == handle_request(request[c], store, io_ok, k)
       IN  /\ response' = [response EXCEPT ![c] = r.resp]
           /\ store' = r.store
           /\ handler_log' = Append(handler_log,
                 [conn |-> c, line |-> k, cmd |-> request[c].cmd,
                  opened |-> OpensStore(request[c])])
    /\ UNCHANGED mutex
    /\ request' = [request EXCEPT ![c] = NoRequest]
    /\ cpc' = [cpc EXCEPT ![c] = "write"]
    /\ UNCHANGED <<inbuf, closed, out, readlog>>
    /\ UNCHANGED <<db, in_tx, ipc, member_i, krate, pending, file_cache, crate_cache,
                   tx_base, last_insert, cycles_ok, runs>>
    /\ UNCHANGED <<watchVars, queryVars, clientVars, protoVars, indexerVars, statusVars,
                   collectVars, cliVars>>

\* server.rs:205-206: state.handle_request(request).await; the guard drops
HandleRequest(c, io_ok) ==
    /\ cpc[c] = "handling"
    /\ mutex = c
    /\ LET k == Len(readlog[c])
           r == handle_request(request[c], store, io_ok, k)
       IN  /\ response' = [response EXCEPT ![c] = r.resp]
           /\ store' = r.store
           /\ handler_log' = Append(handler_log,
                 [conn |-> c, line |-> k, cmd |-> request[c].cmd,
                  opened |-> OpensStore(request[c])])
    /\ mutex' = NoHolder
    /\ request' = [request EXCEPT ![c] = NoRequest]
    /\ cpc' = [cpc EXCEPT ![c] = "write"]
    /\ UNCHANGED <<inbuf, closed, out, readlog>>
    /\ UNCHANGED <<db, in_tx, ipc, member_i, krate, pending, file_cache, crate_cache,
                   tx_base, last_insert, cycles_ok, runs>>
    /\ UNCHANGED <<watchVars, queryVars, clientVars, protoVars, indexerVars, statusVars,
                   collectVars, cliVars>>

\* server.rs:208-210: serialize_message, write_all, flush; back to the loop head
WriteResponse(c) ==
    /\ cpc[c] = "write"
    /\ out' = [out EXCEPT ![c] = Append(@, response[c])]
    /\ response' = [response EXCEPT ![c] = NoResponse]
    /\ cpc' = [cpc EXCEPT ![c] = "read"]
    /\ UNCHANGED <<inbuf, closed, request, readlog, mutex, handler_log>>
    /\ UNCHANGED <<indexVars, watchVars, queryVars, clientVars, protoVars, indexerVars,
                   statusVars, collectVars, cliVars>>

ConnNext ==
    \/ \E c \in Conns, l \in Lines : ClientSend(c, l)
    \/ \E c \in Conns : ClientClose(c)
    \/ \E c \in Conns : ReadLine(c)
    \/ \E c \in Conns : WriteProtocolError(c)
    \/ \E c \in Conns : LockState(c)
    \/ \E c \in Conns, io_ok \in BOOLEAN : HandleRequest(c, io_ok)
    \/ \E c \in Conns : WriteResponse(c)

-----------------------------------------------------------------------------
(* Identity and hashing: libs/ct-core/src/lib.rs *)

TOOL_FINGERPRINT == "ct-v0.1.0"

\* u32::to_le_bytes
to_le_bytes(n) == << n % 256, (n \div 256) % 256, (n \div 65536) % 256,
                     (n \div 16777216) % 256 >>

\* blake3 of a byte string, as hex: an injective tag of the bytes hashed
\* (collisions of the hash itself are not modelled)
Blake3Hex(bytes) == <<"blake3", bytes>>

\* compute_symbol_id: the hasher is fed the five inputs back to back; the
\* three strings are concatenated without separators, the spans are 4 bytes each
compute_symbol_id(def_path, kind, file_digest, span_start, span_end) ==
    Blake3Hex(<< TOOL_FINGERPRINT \o def_path \o kind \o file_digest,
                 to_le_bytes(span_start), to_le_bytes(span_end) >>)

\* compute_file_digest: "blake3:" followed by the hex hash of the content;
\* a file's content is named by a token, which stands for that hash
compute_file_digest(content) == "blake3:" \o content

-----------------------------------------------------------------------------
(* Inputs of an index cycle: the workspace members (cargo metadata), and per
   member the rustdoc blob (rustdoc_types::Crate) with the source files it
   was produced from.  A source file is its content (a token naming the
   bytes) and its lines, each line the set of the markers (unimplemented!,
   todo!, TODO, FIXME) it contains.  The items modelled have no generics and
   no parameters. *)

NoSpan == [filename |-> "", begin |-> 0, end |-> 0]
NoId   == 999
NoType == [kind |-> "Other", id |-> NoId, name |-> ""]

Members == << [name |-> "a", version |-> "0.1.0", package_id |-> "a#0.1.0"],
              [name |-> "b", version |-> "0.2.0", package_id |-> "b#0.2.0"] >>

Span(f, b, e) == [filename |-> f, begin |-> b, end |-> e]
ResolvedPath(id) == [kind |-> "ResolvedPath", id |-> id, name |-> ""]
Primitive(n) == [kind |-> "Primitive", id |-> NoId, name |-> n]

\* rustdoc_types::Item, with the fields the indexer reads; for an Impl:
\* items, trait_ (the trait's id, NoId for an inherent impl) and for_
Item(id, crate_id, name, inner, span) ==
    [id |-> id, crate_id |-> crate_id, name |-> name, inner |-> inner, span |-> span,
     visibility |-> IF inner = "Function" THEN "default" ELSE "public",
     items |-> {}, trait_ |-> NoId, for_ |-> NoType]
ImplItem(id, name, span, items, trait_, for_) ==
    [id |-> id, crate_id |-> 0, name |-> name, inner |-> "Impl", span |-> span,
     visibility |-> "default",
     items |-> items, trait_ |-> trait_, for_ |-> for_]

\* the sources of package a: lib.rs with struct S and `impl S { fn new }`;
\* shift = 0 as first written, shift = 1 after a line was added at the top
FileA == "a/src/lib.rs"
FileB == "b/src/lib.rs"

BlobA(shift) ==
    [index |-> {
        Item(0, 0, "a", "Module", Span(FileA, 1, 8 + shift)),
        Item(1, 0, "S", "Struct", Span(FileA, 1 + shift, 2 + shift)),
        ImplItem(2, NoName, Span(FileA, 3 + shift, 7 + shift), {3}, NoId, ResolvedPath(1)),
        Item(3, 0, "new", "Function", Span(FileA, 4 + shift, 6 + shift)) },
     paths |-> { [id |-> 0, crate_id |-> 0, path |-> <<"a">>],
                 [id |-> 1, crate_id |-> 0, path |-> <<"a", "S">>] },
     disk  |-> { [filename |-> FileA, content |-> IF shift = 0 THEN "a0" ELSE "a1",
                  lines |-> (IF shift = 0 THEN <<>> ELSE << {} >>) \o
                            << {}, {}, {}, {}, {"unimplemented!"}, {}, {}, {} >>] }]

\* the sources of package b: a free function `run` and a derived Clone
\* (an item of the extern crate core, crate_id 1)
BlobB ==
    [index |-> {
        Item(0, 0, "b", "Module", Span(FileB, 1, 5)),
        Item(4, 0, "run", "Function", Span(FileB, 2, 4)),
        Item(5, 1, "Clone", "Trait", NoSpan) },
     paths |-> { [id |-> 0, crate_id |-> 0, path |-> <<"b">>],
                 [id |-> 4, crate_id |-> 0, path |-> <<"b", "run">>],
                 [id |-> 5, crate_id |-> 1, path |-> <<"core", "clone", "Clone">>] },
     disk  |-> { [filename |-> FileB, content |-> "b0",
                  lines |-> << {}, {}, {"TODO"}, {}, {} >>] }]

\* a blob for package b whose impl item carries a name (rustdoc itself emits
\* name: null for impls); its source file has been deleted since
BlobBNamedImpl ==
    [index |-> {
        ImplItem(6, "impl_u8", Span(FileB, 1, 4), {7, 8}, 5, Primitive("u8")),
        Item(7, 0, "clone", "Function", Span(FileB, 2, 3)),
        Item(8, 0, "get", "Function", Span(FileB, 2, 3)) },
     paths |-> { [id |-> 5, crate_id |-> 1, path |-> <<"core", "clone", "Clone">>] },
     disk  |-> {}]

NoKrate == [index |-> {}, paths |-> {}, disk |-> {}]

BlobsOf(name) == IF name = "a" THEN {BlobA(0), BlobA(1)} ELSE {BlobB, BlobBNamedImpl}

-----------------------------------------------------------------------------
(* Store writes: libs/ct-db/src/lib.rs.  Each returns [ok, db, id]. *)

\* INSERT INTO crates: no uniqueness constraint on crates (migrations.rs:11-16)
insert_crate(d, name, version, fingerprint) ==
    [ok |-> TRUE, id |-> Len(d.crates) + 1,
     db |-> [d EXCEPT !.crates = Append(@, [id |-> Len(d.crates) + 1, name |-> name,
                                            version |-> version,
                                            fingerprint |-> fingerprint])]]

\* INSERT INTO files: crate_id REFERENCES crates(id), foreign_keys = ON
insert_file(d, crate_id, path, digest) ==
    IF crate_id \notin RowIds(d.crates) THEN [ok |-> FALSE, id |-> 0, db |-> d]
    ELSE [ok |-> TRUE, id |-> Len(d.files) + 1,
          db |-> [d EXCEPT !.files = Append(@, [id |-> Len(d.files) + 1,
                                                crate_id |-> crate_id, path |-> path,
                                                digest |-> digest])]]

\* a variant of insert_symbol: a symbols table without the unique index on symbol_id
insert_symbol_NoUniqueIndex(d, symbol) ==
    IF \/ symbol.crate_id \notin RowIds(d.crates)
       \/ symbol.file_id \notin RowIds(d.files)
    THEN [ok |-> FALSE, id |-> 0, db |-> d]
    ELSE [ok |-> TRUE, id |-> Len(d.symbols) + 1,
          db |-> [d EXCEPT !.symbols = Append(@, symbol)]]

\* INSERT INTO symbols: ux_symbols_symbol_id is UNIQUE (migrations.rs:42);
\* crate_id and file_id are foreign keys
insert_symbol(d, symbol) ==
    IF \/ \E i \in RowIds(d.symbols) : d.symbols[i].symbol_id = symbol.symbol_id
       \/ symbol.crate_id \notin RowIds(d.crates)
       \/ symbol.file_id \notin RowIds(d.files)
    THEN [ok |-> FALSE, id |-> 0, db |-> d]
    ELSE [ok |-> TRUE, id |-> Len(d.symbols) + 1,
          db |-> [d EXCEPT !.symbols = Append(@, symbol)]]

\* INSERT INTO impls: file_id REFERENCES files(id)
insert_impl(d, imp) ==
    IF imp.file_id \notin RowIds(d.files) THEN [ok |-> FALSE, id |-> 0, db |-> d]
    ELSE [ok |-> TRUE, id |-> Len(d.impls) + 1,
          db |-> [d EXCEPT !.impls = Append(@, [imp EXCEPT !.id = Len(d.impls) + 1])]]

-----------------------------------------------------------------------------
(* Indexing engine: libs/ct-indexer/src/lib.rs *)

DERIVE_METHODS == {"clone", "clone_from", "fmt", "eq", "ne", "partial_cmp", "cmp", "hash",
                   "serialize", "deserialize", "default", "from", "into", "try_from",
                   "try_into", "as_ref", "as_mut", "borrow", "borrow_mut", "to_owned",
                   "to_string", "drop", "deref", "deref_mut"}

\* a filter that knows the formatting and comparison methods only
is_derive_method_NoClone(method_name) == method_name \in {"fmt", "eq", "ne", "cmp", "hash"}

is_derive_method(method_name) == method_name \in DERIVE_METHODS
is_method_item(inner) == inner = "Function"

\* Indexer::new: no filters, derives excluded
IndexerNew == [filter_module |-> NoName, filter_struct |-> NoName, include_derives |-> FALSE]

\* Indexer::with_filters
with_filters(module, struct_name, include_derives) ==
    [filter_module |-> module, filter_struct |-> struct_name,
     include_derives |-> include_derives]

\* segs.join("::")
RECURSIVE Join(_)
Join(segs) == IF segs = <<>> THEN ""
              ELSE IF Len(segs) = 1 THEN segs[1]
              ELSE segs[1] \o "::" \o Join(Tail(segs))

\* compute_crate_fingerprint
compute_crate_fingerprint(member) ==
    "blake3:" \o member.name \o member.version \o member.package_id

\* path_map: the entries of krate.paths with crate_id == 0; local_ids its keys
LocalIds(k) == {p.id : p \in {q \in k.paths : q.crate_id = 0}}
PathOf(k, id) == (CHOOSE p \in k.paths : p.id = id /\ p.crate_id = 0).path
ItemOf(k, id) == CHOOSE it \in k.index : it.id = id

\* impl_context_map: for every local Impl, each of its items maps to
\* (impl id, trait id).  An item listed by several impls keeps the entry
\* written last, in HashMap iteration order: any of them.
NoCtx == [impl_id |-> NoId, trait_id |-> NoId]
ImplContexts(k, id) ==
    {[impl_id |-> it.id, trait_id |-> it.trait_] :
        it \in {x \in k.index : x.crate_id = 0 /\ x.inner = "Impl" /\ id \in x.items}}
CtxChoices(k, id) == IF ImplContexts(k, id) = {} THEN {NoCtx} ELSE ImplContexts(k, id)

\* extract_type_path
extract_type_path(k, ty) ==
    IF ty.kind = "ResolvedPath"
      THEN IF ty.id \in LocalIds(k) THEN Join(PathOf(k, ty.id)) ELSE "external"
    ELSE IF ty.kind \in {"Primitive", "Generic"} THEN ty.name
    ELSE "unknown"

\* the kind and the rendered signature (lib.rs:411-464); "" for the kinds
\* extract_symbol returns None for
KindOf(item, ctx) ==
    CASE item.inner = "Module"      -> "module"
      [] item.inner = "Struct"      -> "struct"
      [] item.inner = "Enum"        -> "enum"
      [] item.inner = "Trait"       -> "trait"
      [] item.inner = "Function"    -> IF ctx # NoCtx THEN "method" ELSE "fn"
      [] item.inner = "TypeAlias"   -> "type_alias"
      [] item.inner = "Constant"    -> "const"
      [] item.inner = "Static"      -> "static"
      [] item.inner = "Impl"        -> "impl"
      [] item.inner = "Variant"     -> "variant"
      [] item.inner = "StructField" -> "field"
      [] OTHER -> ""

SignatureOf(item) ==
    CASE item.inner = "Module"      -> "mod " \o item.name
      [] item.inner = "Struct"      -> "struct " \o item.name
      [] item.inner = "Enum"        -> "enum " \o item.name
      [] item.inner = "Trait"       -> "trait " \o item.name
      [] item.inner = "Function"    -> "fn " \o item.name \o "()"
      [] item.inner = "TypeAlias"   -> "type " \o item.name
      [] item.inner = "Constant"    -> "const " \o item.name \o ": _"
      [] item.inner = "Static"      -> "static " \o item.name \o ": _"
      [] item.inner = "Impl"        -> "impl"
      [] OTHER -> item.name

\* the canonical path (lib.rs:471-521).  found: for an item in neither map,
\* the joined path of the path_map entry the name search meets first, or
\* NoName when no entry's last segment is the item's name.
NameSearch(k, name) ==
    LET hits == {Join(PathOf(k, id)) :
                    id \in {i \in LocalIds(k) :
                               PathOf(k, i)[Len(PathOf(k, i))] = name}}
    IN  IF hits = {} THEN {NoName} ELSE hits

CanonicalPath(k, item, crate_name, ctx, found) ==
    IF ctx # NoCtx THEN
        IF \E x \in k.index : x.id = ctx.impl_id THEN
            LET imp == ItemOf(k, ctx.impl_id) IN
            IF imp.inner = "Impl" THEN
                IF ctx.trait_id # NoId /\ ctx.trait_id \in LocalIds(k)
                THEN crate_name \o "::" \o extract_type_path(k, imp.for_) \o "::"
                     \o Join(PathOf(k, ctx.trait_id)) \o "::" \o item.name
                ELSE crate_name \o "::" \o extract_type_path(k, imp.for_) \o "::" \o item.name
            ELSE crate_name \o "::" \o item.name
        ELSE crate_name \o "::" \o item.name
    ELSE IF item.id \in LocalIds(k) THEN Join(PathOf(k, item.id))
    ELSE IF found # NoName THEN found
    ELSE crate_name \o "::" \o item.name

\* lines[start_line..end_line] with end_line <= lines.len(): the index
\* expression panics when start_line > end_line
SliceOk(start_line, end_line) == start_line <= end_line

\* detect_implementation_status (lib.rs:705-739); a line of a file is the set
\* of the markers it contains; "panic" when the slice expression panics
detect_implementation_status(k, filename, span) ==
    IF ~\E f \in k.disk : f.filename = filename THEN "implemented"
    ELSE LET lines == (CHOOSE f \in k.disk : f.filename = filename).lines
             start_line == IF span.begin = 0 THEN 0 ELSE span.begin - 1
             end_line == Min(span.end, Len(lines))
             body == UNION {lines[i] : i \in (start_line + 1)..end_line}
         IN  IF start_line >= Len(lines) THEN "implemented"
             ELSE IF ~SliceOk(start_line, end_line) THEN "panic"
             ELSE IF "unimplemented!" \in body THEN "unimplemented"
             ELSE IF body \cap {"todo!", "TODO", "FIXME"} # {} THEN "todo"
             ELSE "implemented"

\* lib.rs:553-558: the status of a symbol of kind `kind`.  The spans of the
\* rustdoc documents of the index cycles (BlobsOf) have begin <= end, so the
\* panic does not occur there
StatusFor(k, kind, span) ==
    IF kind \in {"fn", "method"}
    THEN detect_implementation_status(k, span.filename, span)
    ELSE "implemented"

\* should_process_symbol (lib.rs:741-767)
should_process_symbol(cfg, symbol) ==
    IF cfg.filter_module = NoName /\ cfg.filter_struct = NoName THEN TRUE
    ELSE IF cfg.filter_module # NoName /\ ~StartsWith(symbol.path, cfg.filter_module)
         THEN FALSE
    ELSE IF cfg.filter_struct # NoName
         THEN IF cfg.filter_module # NoName
              THEN StartsWith(symbol.path, cfg.filter_module \o "::" \o cfg.filter_struct)
              ELSE Contains(symbol.path, "::" \o cfg.filter_struct)
    ELSE TRUE

\* "Ensure file is in database" (lib.rs:529-543, 599-614): the cached id, or
\* insert_file with the digest of the file on disk ("missing" when absent)
FileIdFor(k, d, fc, crate_id, filename) ==
    IF filename \in DOMAIN fc THEN [ok |-> TRUE, id |-> fc[filename], db |-> d, fc |-> fc]
    ELSE LET digest == IF \E f \in k.disk : f.filename = filename
                       THEN compute_file_digest(
                                (CHOOSE f \in k.disk : f.filename = filename).content)
                       ELSE "missing"
             ins == insert_file(d, crate_id, filename, digest)
         IN  IF ins.ok
             THEN [ok |-> TRUE, id |-> ins.id, db |-> ins.db, fc |-> (filename :> ins.id) @@ fc]
             ELSE [ok |-> FALSE, id |-> 0, db |-> d, fc |-> fc]

NoSymbol == [symbol_id |-> <<>>, crate_id |-> 0, file_id |-> 0, path |-> "", name |-> "",
             kind |-> "", visibility |-> "", signature |-> "", status |-> "",
             span_start |-> 0, span_end |-> 0, def_hash |-> <<>>]

\* the fourth argument of the compute_symbol_id call at lib.rs:545-551
SymbolIdDigestArg(span, file_digest) == span.filename

\* Indexer::extract_symbol (lib.rs:394-575): tag "none" (Ok(None)), "err"
\* (Err) or "some" (Ok(Some(symbol))), with the store view and file cache
\* after the call
extract_symbol(k, item, crate_id, crate_name, ctx, found, d, fc) ==
    IF item.name = NoName \/ KindOf(item, ctx) = ""
      THEN [tag |-> "none", symbol |-> NoSymbol, db |-> d, fc |-> fc]
    ELSE IF item.span = NoSpan
      THEN [tag |-> "err", symbol |-> NoSymbol, db |-> d, fc |-> fc]
    ELSE
      LET kind == KindOf(item, ctx)
          path == CanonicalPath(k, item, crate_name, ctx, found)
          file == FileIdFor(k, d, fc, crate_id, item.span.filename)
          digest == IF file.ok THEN file.db.files[file.id].digest ELSE ""
          sig  == SignatureOf(item)
      IN  IF ~file.ok THEN [tag |-> "err", symbol |-> NoSymbol, db |-> d, fc |-> fc]
          ELSE [tag |-> "some",
                symbol |-> [symbol_id |-> compute_symbol_id(path, kind,
                                            SymbolIdDigestArg(item.span, digest),
                                            item.span.begin, item.span.end),
                            crate_id |-> crate_id,
                            file_id |-> file.id,
                            path |-> path,
                            name |-> item.name,
                            kind |-> kind,
                            visibility |-> IF item.visibility = "public"
                                           THEN "public" ELSE "private",
                            signature |-> sig,
                            status |-> StatusFor(k, kind, item.span),
                            span_start |-> item.span.begin,
                            span_end |-> item.span.end,
                            def_hash |-> Blake3Hex(sig)],
                db |-> file.db, fc |-> file.fc]

\* Indexer::process_impl_block (lib.rs:581-628)
process_impl_block(k, imp, crate_id, crate_name, d, fc) ==
    LET for_path == IF imp.for_.kind = "ResolvedPath"
                    THEN crate_name \o "::" \o ToString(imp.for_.id)
                    ELSE "unknown"
        trait_path == IF imp.trait_ = NoId THEN NoName ELSE ToString(imp.trait_)
        file == FileIdFor(k, d, fc, crate_id, imp.span.filename)
        ins == insert_impl(file.db, [id |-> 0, for_path |-> for_path,
                                     trait_path |-> trait_path, file_id |-> file.id,
                                     line_start |-> imp.span.begin,
                                     line_end |-> imp.span.end])
    IN  IF file.ok /\ ins.ok THEN [ok |-> TRUE, db |-> ins.db, fc |-> file.fc]
        ELSE [ok |-> FALSE, db |-> IF file.ok THEN file.db ELSE d, fc |-> file.fc]

\* one iteration of the loop at lib.rs:333-384 over item `item`: the
\* outcome ("skip", "err", "inserted"), the store view, the file cache and
\* the record of the insert_symbol call made, if any
NoInsert == [called |-> FALSE, dup |-> FALSE, ok |-> FALSE, unchanged |-> FALSE]

ProcessOne(k, cfg, item, crate_id, crate_name, ctx, found, d, fc) ==
    IF item.crate_id # 0
      THEN [res |-> "skip", db |-> d, fc |-> fc, ins |-> NoInsert]
    ELSE IF ~cfg.include_derives /\ item.name # NoName
            /\ is_derive_method(item.name) /\ is_method_item(item.inner)
      THEN [res |-> "skip", db |-> d, fc |-> fc, ins |-> NoInsert]
    ELSE
      LET ex == extract_symbol(k, item, crate_id, crate_name, ctx, found, d, fc) IN
      IF ex.tag = "err" THEN [res |-> "err", db |-> ex.db, fc |-> ex.fc, ins |-> NoInsert]
      ELSE IF ex.tag = "none" \/ ~should_process_symbol(cfg, ex.symbol)
        THEN [res |-> "skip", db |-> ex.db, fc |-> ex.fc, ins |-> NoInsert]
      ELSE
        LET ins == insert_symbol(ex.db, ex.symbol)
            rec == [called |-> TRUE,
                    dup |-> \E i \in RowIds(ex.db.symbols) :
                               ex.db.symbols[i].symbol_id = ex.symbol.symbol_id,
                    ok |-> ins.ok,
                    unchanged |-> ins.db.symbols = ex.db.symbols]
        IN  IF ~ins.ok THEN [res |-> "err", db |-> ins.db, fc |-> ex.fc, ins |-> rec]
            ELSE IF item.inner = "Impl" /\ item.span # NoSpan
              THEN LET pib == process_impl_block(k, item, crate_id, crate_name,
                                                 ins.db, ex.fc)
                   IN  [res |-> IF pib.ok THEN "inserted" ELSE "err",
                        db |-> pib.db, fc |-> pib.fc, ins |-> rec]
            ELSE [res |-> "inserted", db |-> ins.db, fc |-> ex.fc, ins |-> rec]

-----------------------------------------------------------------------------
(* The daemon process up to the end of its index cycle:
   bins/ct-daemon/src/main.rs:64-82, Indexer::index_workspace / index_crate *)

NoCache == [x \in {} |-> 0]

\* main.rs:67-70: Database::open(&db_path), Indexer::new(workspace_root, db)
DaemonStart ==
    /\ ipc = "stopped"
    /\ runs < MaxRuns
    /\ runs' = runs + 1
    /\ store' = DatabaseOpen(store, TRUE).store
    /\ db' = DatabaseOpen(store, TRUE).store
    /\ in_tx' = FALSE
    /\ file_cache' = NoCache
    /\ crate_cache' = NoCache
    /\ ipc' = IF DatabaseOpen(store, TRUE).ok THEN "discover" ELSE "returned_err"
    /\ UNCHANGED <<member_i, krate, pending, tx_base, last_insert, cycles_ok>>
    /\ UNCHANGED <<connVars, watchVars, queryVars, clientVars, protoVars, indexerVars,
                   statusVars, collectVars, cliVars>>

\* lib.rs:117-121: discover_workspace_members(..).await?, then
\* self.db.begin_transaction()?  (BEGIN IMMEDIATE)
Discover(found_ok) ==
    /\ ipc = "discover"
    /\ IF found_ok
       THEN /\ in_tx' = TRUE
            /\ tx_base' = db
            /\ member_i' = 1
            /\ ipc' = "crate"
       ELSE /\ ipc' = "returned_err"
            /\ UNCHANGED <<in_tx, tx_base, member_i>>
    /\ UNCHANGED <<store, db, krate, pending, file_cache, crate_cache, last_insert,
                   cycles_ok, runs>>
    /\ UNCHANGED <<connVars, watchVars, queryVars, clientVars, protoVars, indexerVars,
                   statusVars, collectVars, cliVars>>

\* what index_workspace does to the open transaction when index_crate
\* returns Err: `?` at lib.rs:127 propagates the error; rollback_transaction
\* is not called.  [db, in_tx] after the return.
OnCrateError(d, base, open) == [db |-> d, in_tx |-> open]

\* index_crate up to the parsed blob (lib.rs:139-172): insert the crate row,
\* run the extractor, parse its output.  outcome: "ok" with the parsed blob,
\* or "rustdoc_failed" (generate_rustdoc_json) / "parse_failed"
IndexCrate(outcome, blob) ==
    /\ ipc = "crate"
    /\ LET member == Members[member_i]
           ins == insert_crate(db, member.name, member.version,
                               compute_crate_fingerprint(member))
       IN  /\ crate_cache' = (member.name :> ins.id) @@ crate_cache
           /\ IF outcome # "ok"
              THEN /\ db' = OnCrateError(ins.db, tx_base, in_tx).db
                   /\ in_tx' = OnCrateError(ins.db, tx_base, in_tx).in_tx
                   /\ ipc' = "returned_err"
                   /\ UNCHANGED <<krate, pending>>
              ELSE /\ db' = ins.db
                   /\ krate' = blob
                   /\ pending' = {it.id : it \in blob.index}
                   /\ ipc' = "items"
                   /\ UNCHANGED in_tx
    /\ UNCHANGED <<store, member_i, file_cache, tx_base, last_insert, cycles_ok, runs>>
    /\ UNCHANGED <<connVars, watchVars, queryVars, clientVars, protoVars, indexerVars,
                   statusVars, collectVars, cliVars>>

\* one iteration of the loop of process_rustdoc_data, in HashMap order
ProcessItem(id, ctx, found) ==
    /\ ipc = "items"
    /\ id \in pending
    /\ LET member == Members[member_i]
           r == ProcessOne(krate, indexer, ItemOf(krate, id), crate_cache[member.name],
                           member.name, ctx, found, db, file_cache)
       IN  /\ file_cache' = r.fc
           /\ last_insert' = IF r.ins.called THEN r.ins ELSE last_insert
           /\ IF r.res = "err"
              THEN /\ db' = OnCrateError(r.db, tx_base, in_tx).db
                   /\ in_tx' = OnCrateError(r.db, tx_base, in_tx).in_tx
                   /\ ipc' = "returned_err"
                   /\ UNCHANGED pending
              ELSE /\ db' = r.db
                   /\ pending' = pending \ {id}
                   /\ UNCHANGED <<in_tx, ipc>>
    /\ UNCHANGED <<store, member_i, krate, crate_cache, tx_base, cycles_ok, runs>>
    /\ UNCHANGED <<connVars, watchVars, queryVars, clientVars, protoVars, indexerVars,
                   statusVars, collectVars, cliVars>>

\* index_crate returns Ok(stats); the loop at lib.rs:125 takes the next member
NextCrate ==
    /\ ipc = "items"
    /\ pending = {}
    /\ member_i < Len(Members)
    /\ member_i' = member_i + 1
    /\ ipc' = "crate"
    /\ krate' = NoKrate
    /\ UNCHANGED <<store, db, in_tx, pending, file_cache, crate_cache, tx_base,
                   last_insert, cycles_ok, runs>>
    /\ UNCHANGED <<connVars, watchVars, queryVars, clientVars, protoVars, indexerVars,
                   statusVars, collectVars, cliVars>>

\* lib.rs:131-136: commit_transaction, return Ok(stats)
Commit ==
    /\ ipc = "items"
    /\ pending = {}
    /\ member_i = Len(Members)
    /\ store' = db
    /\ in_tx' = FALSE
    /\ ipc' = "returned_ok"
    /\ cycles_ok' = cycles_ok + 1
    /\ krate' = NoKrate
    /\ UNCHANGED <<db, member_i, pending, file_cache, crate_cache, tx_base, last_insert, runs>>
    /\ UNCHANGED <<connVars, watchVars, queryVars, clientVars, protoVars, indexerVars,
                   statusVars, collectVars, cliVars>>

\* the process ends (main returns the error, --once, or a later shutdown):
\* the connection is closed, which discards a transaction left open
ProcessExit ==
    /\ ipc \in {"returned_ok", "returned_err"}
    /\ db' = store
    /\ in_tx' = FALSE
    /\ ipc' = "stopped"
    /\ krate' = NoKrate
    /\ pending' = {}
    /\ member_i' = 0
    /\ file_cache' = NoCache
    /\ crate_cache' = NoCache
    /\ last_insert' = NoInsert
    /\ UNCHANGED <<store, tx_base, cycles_ok, runs>>
    /\ UNCHANGED <<connVars, watchVars, queryVars, clientVars, protoVars, indexerVars,
                   statusVars, collectVars, cliVars>>

\* one run of the daemon up to the return of index_workspace
IndexRunNext ==
    \/ DaemonStart
    \/ \E found_ok \in BOOLEAN : Discover(found_ok)
    \/ \E outcome \in {"ok", "rustdoc_failed", "parse_failed"} :
          \E blob \in (IF ipc = "crate" THEN BlobsOf(Members[member_i].name) ELSE {}) :
             IndexCrate(outcome, blob)
    \/ \E id \in pending :
          \E ctx \in CtxChoices(krate, id) :
             \E found \in NameSearch(krate, ItemOf(krate, id).name) :
                ProcessItem(id, ctx, found)
    \/ NextCrate
    \/ Commit

IndexNext == IndexRunNext \/ ProcessExit

-----------------------------------------------------------------------------
(* The daemon core serving requests once the initial index has returned
   (main.rs:84-88 starts the server after index_workspace); the mutex
   around DaemonState lets one handle_request run at a time *)

\* a configuration file with small limits
SmallConfig == [max_context_size |-> 100, max_list |-> 4]

\* values of a request's vis member
VisValues == {NoName, "all", "public", "private", "bogus", "public' OR 'a'='a", "it's"}
\* values of find's name member
FindNames == {NoName, "", "N", "_", "%"}
\* values of a path member
DocPaths == {"a::S", "b::nothing"}

Requests ==
    {Command("find", n, NoName, NoName, NoName, "None", "None", FALSE) : n \in FindNames}
    \cup {Command("find", "", NoName, NoName, NoName, u, t, FALSE) :
        u \in OptBool, t \in OptBool}
    \cup {Command("find", "", NoName, NoName, v, "true", "true", FALSE) : v \in VisValues}
    \cup {Command("find", "", NoName, "fn", "private", "true", "true", FALSE),
          Command("find", NoName, "a::S", NoName, NoName, "None", "None", FALSE)}
    \cup {Command("status", NoName, NoName, NoName, v, "None", "None", FALSE) :
        v \in VisValues}
    \cup {Command("status", NoName, NoName, NoName, NoName, u, t, FALSE) :
        u \in OptBool, t \in OptBool}
    \cup {Command("doc", NoName, p, NoName, NoName, "None", "None", p = "a::S") :
        p \in DocPaths}
    \cup {Command("export", NoName, p, NoName, NoName, "None", "None", FALSE) : p \in DocPaths}
    \cup {Command(c, NoName, NoName, NoName, NoName, "None", "None", FALSE) :
        c \in {"ls", "diag", "bench"}}
    \cup {ReindexCommand(NoName, NoName, FALSE), ReindexCommand("a", "S", TRUE)}

\* store files that this daemon did not write: none, one whose meta row
\* records version 0, one written under a later schema
PriorStores == {[EmptyStore EXCEPT !.schema_version = v] : v \in {NoMeta, "0", "2"}}

\* main.rs:84-88: start_server returns with the server task running.  The
\* Indexer is not used after main.rs:73, so its caches and the histories of
\* its cycle are dropped from the state.
ServerStarted ==
    /\ ipc = "returned_ok"
    /\ ipc' = "serving"
    /\ file_cache' = NoCache
    /\ crate_cache' = NoCache
    /\ member_i' = 0
    /\ tx_base' = store
    /\ last_insert' = NoInsert
    /\ UNCHANGED <<store, db, in_tx, krate, pending, cycles_ok, runs>>
    /\ UNCHANGED <<connVars, watchVars, queryVars, clientVars, protoVars, indexerVars,
                   statusVars, collectVars, cliVars>>

\* state.handle_request(request).await for one request
Serve(c, io_ok) ==
    /\ ipc = "serving"
    /\ qreq = NoCommand
    /\ qreq' = c
    /\ qresp' = Envelope(Dispatch(c, store, io_ok, config))
    /\ store' = Dispatch(c, store, io_ok, config).store
    /\ UNCHANGED <<db, in_tx, ipc, member_i, krate, pending, file_cache, crate_cache,
                   tx_base, last_insert, cycles_ok, runs, config>>
    /\ UNCHANGED <<connVars, watchVars, clientVars, protoVars, indexerVars, statusVars,
                   collectVars, cliVars>>

\* the response has been written: the daemon core is idle again
Answered ==
    /\ qreq # NoCommand
    /\ qreq' = NoCommand
    /\ qresp' = NoOutcome
    /\ UNCHANGED <<indexVars, connVars, watchVars, config, clientVars, protoVars, indexerVars,
                   statusVars, collectVars, cliVars>>

\* the store file is replaced on disk while the daemon serves (the handlers
\* open db_path anew for each request)
ReplaceStoreFile(s) ==
    /\ ipc = "serving"
    /\ qreq = NoCommand
    /\ store # s
    /\ store' = s
    /\ UNCHANGED <<qreq, qresp>>
    /\ UNCHANGED <<db, in_tx, ipc, member_i, krate, pending, file_cache, crate_cache,
                   tx_base, last_insert, cycles_ok, runs, config>>
    /\ UNCHANGED <<connVars, watchVars, clientVars, protoVars, indexerVars, statusVars,
                   collectVars, cliVars>>

QueryNext ==
    \/ ServerStarted
    \/ \E c \in Requests : \E io_ok \in BOOLEAN : Serve(c, io_ok)
    \/ Answered
    \/ \E s \in PriorStores : ReplaceStoreFile(s)

-----------------------------------------------------------------------------
(* File watcher: libs/ct-indexer/src/watcher.rs; main.rs:84-119 *)

\* the paths of the workspace that change, in PathBuf order (component-wise)
WatchPaths == << <<".git", "hook.rs">>, <<"README.md">>, <<"src", "lib.rs">>,
                 <<"target", "debug", "build.rs">> >>
EventKinds == {"Create", "Modify", "Remove", "Access"}
Events == {[kind |-> k, path |-> WatchPaths[i]] : k \in EventKinds, i \in 1..Len(WatchPaths)}

\* Path::extension of the last component: the text after its last '.',
\* none ("") when there is no '.' or only a leading one
Extension(name) ==
    LET dots == {i \in 2..Len(name) : SubSeq(name, i, i) = "."}
    IN  IF dots = {} THEN ""
        ELSE LET last == CHOOSE i \in dots : \A j \in dots : j <= i
             IN  SubSeq(name, last + 1, Len(name))

is_rust_file(path) == Extension(path[Len(path)]) = "rs"

is_ignored(path) ==
    \E i \in 1..Len(path) : path[i] = "target" \/ StartsWith(path[i], ".")

Qualifies(ev) ==
    /\ ev.kind \in {"Create", "Modify", "Remove"}
    /\ is_rust_file(ev.path)
    /\ ~is_ignored(ev.path)

\* Ord of Path: the components are compared in turn, each as bytes; a
\* proper prefix is less
RECURSIVE PathLess(_, _)
PathLess(a, b) ==
    IF b = <<>> THEN FALSE
    ELSE IF a = <<>> THEN TRUE
    ELSE IF Head(a) = Head(b) THEN PathLess(Tail(a), Tail(b))
    ELSE TextLess(Head(a), Head(b))

\* the loop of collect_changes: the paths pushed, in the order of the events
RECURSIVE Pushed(_)
Pushed(events) ==
    IF events = <<>> THEN <<>>
    ELSE (IF Qualifies(Head(events)) THEN <<Head(events).path>> ELSE <<>>)
         \o Pushed(Tail(events))

\* Vec::sort
RECURSIVE SortPaths(_)
SortPaths(paths) ==
    IF paths = <<>> THEN <<>>
    ELSE LET m == CHOOSE i \in 1..Len(paths) :
                      \A j \in 1..Len(paths) :
                          ~PathLess(paths[j], paths[i]) /\ (paths[j] = paths[i] => i <= j)
         IN  <<paths[m]>> \o SortPaths(SubSeq(paths, 1, m - 1)
                                        \o SubSeq(paths, m + 1, Len(paths)))

\* a Vec::dedup that removes nothing
Dedup_Keep(paths) == paths

\* Vec::dedup: of consecutive equal elements the first is kept
RECURSIVE Dedup(_)
Dedup(paths) ==
    IF Len(paths) <= 1 THEN paths
    ELSE IF paths[1] = paths[2] THEN Dedup(Tail(paths))
    ELSE <<paths[1]>> \o Dedup(Tail(paths))

\* FileWatcher::collect_changes on the events its loop takes from rx
collect_changes(events) == Dedup(SortPaths(Pushed(events)))

\* WatcherHandle::request_changes: "Stub for now", Ok(vec![])
request_changes == <<>>

\* Indexer::reindex_files: a stub returning IndexStats::default(); the
\* store is not written
reindex_files(d, files) == d

\* main.rs:85: spawn_watcher(..).await? creates the channel and spawns the task
SpawnWatcher ==
    /\ mpc = "spawn_watcher"
    /\ wpc' = "starting"
    /\ mpc' = "start_server"
    /\ UNCHANGED <<wchan, raw_events, fs_changed, delivered, reindexed>>
    /\ UNCHANGED mainVars
    /\ UNCHANGED <<connVars, indexVars, queryVars, clientVars, protoVars, indexerVars,
                   statusVars, collectVars, cliVars>>

\* watcher.rs:127-138: FileWatcher::new and watch; on error the task returns
WatcherStart(ok) ==
    /\ wpc = "starting"
    /\ wpc' = IF ok THEN "loop" ELSE "exited"
    /\ UNCHANGED <<wchan, raw_events, fs_changed, delivered, reindexed, mpc>>
    /\ UNCHANGED mainVars
    /\ UNCHANGED <<connVars, indexVars, queryVars, clientVars, protoVars, indexerVars,
                   statusVars, collectVars, cliVars>>

\* main.rs:88: server::start_server(..).await?: binds the listener and
\* spawns the accept loop, or returns the error of the bind
StartServer(ok) ==
    /\ mpc = "start_server"
    /\ mpc' = IF ok THEN "waiting" ELSE "exited"
    /\ spc' = IF ok THEN "accepting" ELSE spc
    /\ UNCHANGED <<wpc, wchan, raw_events, fs_changed, delivered, reindexed>>
    /\ UNCHANGED <<stop_results, schan, parked, inflight>>
    /\ UNCHANGED <<connVars, indexVars, queryVars, clientVars, protoVars, indexerVars,
                   statusVars, collectVars, cliVars>>

\* a file of the workspace changes while the OS watch is active: notify's
\* callback queues the event on the FileWatcher's channel
FsChange(ev) ==
    /\ wpc = "loop"
    /\ mpc # "exited"
    /\ Len(raw_events) < MaxEvents
    /\ raw_events' = Append(raw_events, ev)
    /\ fs_changed' = IF Qualifies(ev) THEN fs_changed \cup {ev.path} ELSE fs_changed
    /\ UNCHANGED <<wpc, wchan, delivered, reindexed, mpc>>
    /\ UNCHANGED mainVars
    /\ UNCHANGED <<connVars, indexVars, queryVars, clientVars, protoVars, indexerVars,
                   statusVars, collectVars, cliVars>>

\* watcher.rs:140-157: the task's select! on rx.recv().  GetChanges runs
\* collect_changes and drops the result (`_changes`); Stop breaks
WatcherRecv ==
    /\ wpc = "loop"
    /\ wchan # <<>>
    /\ wchan' = Tail(wchan)
    /\ IF Head(wchan) = "GetChanges"
       THEN /\ raw_events' = <<>>
            /\ UNCHANGED wpc
       ELSE /\ wpc' = "exited"
            /\ UNCHANGED raw_events
    /\ UNCHANGED <<fs_changed, delivered, reindexed, mpc>>
    /\ UNCHANGED mainVars
    /\ UNCHANGED <<connVars, indexVars, queryVars, clientVars, protoVars, indexerVars,
                   statusVars, collectVars, cliVars>>

\* a connection task has read a line and has not yet written its response
Unanswered(c) == cpc[c] \in {"lock", "handling", "write", "write_error"}

\* main.rs:93-115: SIGINT / SIGTERM arrives
ShutdownSignal ==
    /\ mpc = "waiting"
    /\ mpc' = "stop_watcher"
    /\ inflight' = [c \in Conns |-> IF Unanswered(c) THEN Len(readlog[c]) ELSE 0]
    /\ UNCHANGED <<wpc, wchan, raw_events, fs_changed, delivered, reindexed>>
    /\ UNCHANGED <<stop_results, spc, schan, parked>>
    /\ UNCHANGED <<connVars, indexVars, queryVars, clientVars, protoVars, indexerVars,
                   statusVars, collectVars, cliVars>>

\* WatcherHandle::stop: self.tx.send(WatcherCommand::Stop).await, the error
\* mapped to IndexingFailed.  The send fails when the receiver is gone: the
\* watcher task has returned and dropped rx.  (The channel holds 100
\* commands; the model never fills it.)
stop(task, chan) ==
    IF task = "exited" THEN [ok |-> FALSE, chan |-> chan]
    ELSE [ok |-> TRUE, chan |-> Append(chan, "Stop")]

\* main.rs:118: watcher_handle.stop().await?: main returns the error of a
\* failed stop
StopWatcher ==
    /\ mpc = "stop_watcher"
    /\ mpc' = IF stop(wpc, wchan).ok THEN "stop_server" ELSE "exited"
    /\ wchan' = stop(wpc, wchan).chan
    /\ stop_results' = Append(stop_results, IF stop(wpc, wchan).ok THEN "Ok" ELSE "Err")
    /\ UNCHANGED <<wpc, raw_events, fs_changed, delivered, reindexed>>
    /\ UNCHANGED srvVars
    /\ UNCHANGED <<connVars, indexVars, queryVars, clientVars, protoVars, indexerVars,
                   statusVars, collectVars, cliVars>>

\* another holder of the WatcherHandle calls stop (the handle's stop takes
\* &self, so it can be called again)
CallStop ==
    /\ wpc # "none"
    /\ mpc # "exited"
    /\ Len(stop_results) < MaxStops
    /\ wchan' = stop(wpc, wchan).chan
    /\ stop_results' = Append(stop_results, IF stop(wpc, wchan).ok THEN "Ok" ELSE "Err")
    /\ UNCHANGED <<wpc, raw_events, fs_changed, delivered, reindexed, mpc>>
    /\ UNCHANGED srvVars
    /\ UNCHANGED <<connVars, indexVars, queryVars, clientVars, protoVars, indexerVars,
                   statusVars, collectVars, cliVars>>

\* main.rs:119-122: server_handle.shutdown().await? sends () on the
\* shutdown channel (it has room: shutdown consumes the handle); main
\* returns Ok(()) without waiting for any task
StopServer ==
    /\ mpc = "stop_server"
    /\ mpc' = "exited"
    /\ schan' = schan + 1
    /\ UNCHANGED <<wpc, wchan, raw_events, fs_changed, delivered, reindexed>>
    /\ UNCHANGED <<stop_results, spc, parked, inflight>>
    /\ UNCHANGED <<connVars, indexVars, queryVars, clientVars, protoVars, indexerVars,
                   statusVars, collectVars, cliVars>>

\* server.rs:89-96 (also 148-157): listener.accept() yields a stream and the
\* loop spawns handle_connection for it
Accept(c) ==
    /\ spc = "accepting"
    /\ cpc[c] = "connecting"
    /\ cpc' = [cpc EXCEPT ![c] = "read"]
    /\ UNCHANGED <<inbuf, closed, request, response, out, readlog, mutex, handler_log>>
    /\ UNCHANGED <<indexVars, watchVars, queryVars, clientVars, protoVars, indexerVars,
                   statusVars, collectVars, cliVars>>

\* server.rs:98-101: shutdown_rx.recv() yields the message; break
ServerLoopRecv ==
    /\ spc = "accepting"
    /\ schan > 0
    /\ schan' = schan - 1
    /\ spc' = "stopped"
    /\ UNCHANGED <<wpc, wchan, raw_events, fs_changed, delivered, reindexed, mpc>>
    /\ UNCHANGED <<stop_results, parked, inflight>>
    /\ UNCHANGED <<connVars, indexVars, queryVars, clientVars, protoVars, indexerVars,
                   statusVars, collectVars, cliVars>>

\* server.rs:204: state.lock().await finds the mutex held: the task yields
\* and waits to be woken
LockWait(c) ==
    /\ cpc[c] = "lock"
    /\ mutex \notin {NoHolder, c}
    /\ parked[c] # Len(readlog[c])
    /\ parked' = [parked EXCEPT ![c] = Len(readlog[c])]
    /\ UNCHANGED <<wpc, wchan, raw_events, fs_changed, delivered, reindexed, mpc>>
    /\ UNCHANGED <<stop_results, spc, schan, inflight>>
    /\ UNCHANGED <<connVars, indexVars, queryVars, clientVars, protoVars, indexerVars,
                   statusVars, collectVars, cliVars>>

\* the task of c has yielded at state.lock().await
ParkedAtLock(c) == cpc[c] = "lock" /\ parked[c] = Len(readlog[c])

\* the task of c is between two yields of handle_connection: the code from
\* read_line's return to the flush has no await that must wait, the lock
\* excepted
MidPoll(c) == Unanswered(c) /\ ~ParkedAtLock(c)

\* main has returned: #[tokio::main] drops the runtime.  A task that is being
\* polled runs to its next yield; the tasks that have yielded are dropped
\* where they are, and the process exits.
RuntimeDropped ==
    /\ mpc = "exited"
    /\ \A c \in Conns : ~MidPoll(c)
    /\ mpc' = "gone"
    /\ UNCHANGED <<wpc, wchan, raw_events, fs_changed, delivered, reindexed>>
    /\ UNCHANGED mainVars
    /\ UNCHANGED <<connVars, indexVars, queryVars, clientVars, protoVars, indexerVars,
                   statusVars, collectVars, cliVars>>

\* the lines an IpcClient writes: serialize_message of a Request built by
\* the clients (client.rs:67-72), which carries a cmd, a request_id and
\* PROTOCOL_VERSION
ClientLines ==
    {l \in Lines : /\ l.enc = "utf8" /\ l.body = "json" /\ l.cmd \in Commands
                   /\ l.rid # "" /\ l.ver = PROTOCOL_VERSION}

\* the daemon's steps from spawn_watcher to the exit of the process; once
\* main has returned no task that waits for the mutex is polled again
DaemonNext ==
    \/ mpc # "gone" /\ SpawnWatcher
    \/ mpc # "gone" /\ \E ok \in BOOLEAN : WatcherStart(ok)
    \/ mpc # "gone" /\ \E ok \in BOOLEAN : StartServer(ok)
    \/ mpc # "gone" /\ WatcherRecv
    \/ ShutdownSignal
    \/ StopWatcher
    \/ StopServer
    \/ mpc # "gone" /\ ServerLoopRecv
    \/ mpc # "gone" /\ \E c \in Conns : Accept(c)
    \/ mpc # "gone" /\ \E c \in Conns : ReadLine(c)
    \/ mpc # "gone" /\ \E c \in Conns : LockWait(c)
    \/ mpc # "gone" /\ \E c \in Conns : ~(mpc = "exited" /\ ParkedAtLock(c)) /\ LockState(c)
    \/ mpc # "gone" /\ \E c \in Conns, io_ok \in BOOLEAN : HandleRequest(c, io_ok)
    \/ mpc # "gone" /\ \E c \in Conns : WriteResponse(c)
    \/ RuntimeDropped

\* the daemon shutting down while clients send request lines
ShutdownNext ==
    \/ DaemonNext
    \/ mpc # "gone" /\ \E c \in Conns, l \in ClientLines : ClientSend(c, l)
    \/ mpc # "gone" /\ \E c \in Conns : ClientClose(c)

\* TransportStream::send_request: serialize_message, write_all of the line
\* and its "\n", flush
IpcSend(c, l) ==
    /\ kpc[c] = "idle"
    /\ LinesSent < MaxLines
    /\ inbuf' = [inbuf EXCEPT ![c] = Append(@, l)]
    /\ kpc' = [kpc EXCEPT ![c] = "reading"]
    /\ UNCHANGED <<closed, cpc, request, response, out, readlog, mutex, handler_log>>
    /\ UNCHANGED <<cread, cret>>
    /\ UNCHANGED <<indexVars, watchVars, queryVars, protoVars, indexerVars, statusVars,
                   collectVars, cliVars>>

\* the daemon's end of the stream of c is closed: the connection task has
\* returned, or the process has exited
StreamClosed(c) == cpc[c] \in {"done", "failed"} \/ mpc = "gone"

\* what read_line(&mut line) leaves to read_response: a response line, or
\* nothing at the end of the stream ("eof"), or an io error ("reset")
NoLine == [kind |-> "", request_id |-> "", err_code |-> "", answers |-> 0]
Got(kind, line) == [kind |-> kind, line |-> line]

\* a read_response that hands an empty read to deserialize_message
read_response_NoEmptyCheck(got) ==
    IF got.kind = "reset" THEN [got |-> got.kind, kind |-> "Err", err |-> "Io", resp |-> NoLine]
    ELSE IF got.kind = "eof"
      THEN [got |-> got.kind, kind |-> "Err", err |-> "InvalidData", resp |-> NoLine]
    ELSE [got |-> got.kind, kind |-> "Response", err |-> "", resp |-> got.line]

\* TransportStream::read_response: read_line(..).await?, the check of the
\* trimmed line, deserialize_message (a line the daemon wrote is the
\* serialization of a Response)
read_response(got) ==
    IF got.kind = "reset" THEN [got |-> got.kind, kind |-> "Err", err |-> "Io", resp |-> NoLine]
    ELSE IF got.kind = "eof"
      THEN [got |-> got.kind, kind |-> "Err", err |-> "UnexpectedEof", resp |-> NoLine]
    ELSE [got |-> got.kind, kind |-> "Response", err |-> "", resp |-> got.line]

\* the number of whole lines that the BufReader made for this call takes off
\* the stream when `avail` lines are there: the line returned, and as many
\* of those behind it as the buffer was filled with (they are dropped with
\* the BufReader)
BufferFill(avail) == 1..avail

\* read_response on a stream that holds a response line
IpcRead(c, n) ==
    /\ kpc[c] = "reading"
    /\ n \in BufferFill(Len(out[c]) - cread[c])
    /\ cret' = [cret EXCEPT ![c] = Append(@, read_response(Got("line", out[c][cread[c] + 1])))]
    /\ cread' = [cread EXCEPT ![c] = @ + n]
    /\ kpc' = [kpc EXCEPT ![c] = "idle"]
    /\ UNCHANGED <<connVars, indexVars, watchVars, queryVars, protoVars, indexerVars,
                   statusVars, collectVars, cliVars>>

\* read_response on a stream that the daemon has closed: read_line returns
\* Ok(0), or the error of a reset connection
IpcReadClosed(c, kind) ==
    /\ kpc[c] = "reading"
    /\ Len(out[c]) = cread[c]
    /\ StreamClosed(c)
    /\ cret' = [cret EXCEPT ![c] = Append(@, read_response(Got(kind, NoLine)))]
    /\ kpc' = [kpc EXCEPT ![c] = "idle"]
    /\ UNCHANGED cread
    /\ UNCHANGED <<connVars, indexVars, watchVars, queryVars, protoVars, indexerVars,
                   statusVars, collectVars, cliVars>>

\* the daemon with an IpcClient on each connection
ClientNext ==
    \/ DaemonNext
    \/ \E c \in Conns, l \in ClientLines : IpcSend(c, l)
    \/ \E c \in Conns, n \in 1..MaxLines : IpcRead(c, n)
    \/ \E c \in Conns, kind \in {"eof", "reset"} : IpcReadClosed(c, kind)

WatchNext ==
    \/ SpawnWatcher
    \/ \E ok \in BOOLEAN : WatcherStart(ok)
    \/ \E ok \in BOOLEAN : StartServer(ok)
    \/ \E ev \in Events : FsChange(ev)
    \/ WatcherRecv
    \/ ShutdownSignal
    \/ StopWatcher
    \/ StopServer

-----------------------------------------------------------------------------
(* The codec of Response: libs/ct-protocol/src/lib.rs:117-239.  A JSON
   document is modelled as a tree: an object is a function from its keys, an
   array a sequence, a scalar the text of its token.  The strings of the
   model need no escaping.  A serde_json::Value is the text it renders to. *)

NoDecision == [reason |-> "", content_len |-> 0, options |-> <<>>]

\* a Response value; the members its variant lacks hold the defaults below
NoMsg == [variant |-> "", ok |-> FALSE, request_id |-> "", protocol_version |-> 0,
          data |-> "null", truncated |-> FALSE, metrics |-> "None",
          decision_required |-> NoDecision, err |-> "", err_code |-> ""]

Response_success(request_id, data) ==
    [NoMsg EXCEPT !.variant = "Success", !.ok = TRUE, !.request_id = request_id,
                  !.protocol_version = PROTOCOL_VERSION, !.data = data,
                  !.truncated = FALSE, !.metrics = "None"]

Response_error(request_id, err, err_code) ==
    [NoMsg EXCEPT !.variant = "Error", !.ok = FALSE, !.request_id = request_id,
                  !.protocol_version = PROTOCOL_VERSION, !.err = err,
                  !.err_code = err_code]

Response_decision(request_id, reason, content_len, options) ==
    [NoMsg EXCEPT !.variant = "Decision", !.ok = TRUE, !.request_id = request_id,
                  !.protocol_version = PROTOCOL_VERSION,
                  !.decision_required = [reason |-> reason, content_len |-> content_len,
                                         options |-> options]]

\* the tokens of a bool, a string and an integer, and their parsers: [ok, val]
JsonBool(b) == IF b THEN "true" ELSE "false"
JsonString(str) == "\"" \o str \o "\""
ParseBool(tok) == [ok |-> tok \in {"true", "false"}, val |-> tok = "true"]
ParseString(tok) ==
    IF Len(tok) >= 2 /\ CharAt(tok, 1) = "\"" /\ CharAt(tok, Len(tok)) = "\""
    THEN [ok |-> TRUE, val |-> SubSeq(tok, 2, Len(tok) - 1)]
    ELSE [ok |-> FALSE, val |-> ""]

\* the object with no member
NoWire == [k \in {} |-> ""]

\* #[derive(Serialize)] of the three envelopes: the members written, in the
\* order of the fields; metrics is skipped when None
ToJson(msg) ==
    ("ok" :> JsonBool(msg.ok)) @@ ("request_id" :> JsonString(msg.request_id))
    @@ ("protocol_version" :> ToString(msg.protocol_version))
    @@ (CASE msg.variant = "Success" ->
               ("data" :> msg.data) @@ ("truncated" :> JsonBool(msg.truncated))
               @@ (IF msg.metrics = "None" THEN NoWire ELSE ("metrics" :> msg.metrics))
          [] msg.variant = "Decision" ->
               ("decision_required" :>
                   [reason |-> JsonString(msg.decision_required.reason),
                    content_len |-> ToString(msg.decision_required.content_len),
                    options |-> [i \in 1..Len(msg.decision_required.options) |->
                                    JsonString(msg.decision_required.options[i])]])
          [] OTHER ->
               ("err" :> JsonString(msg.err)) @@ ("err_code" :> JsonString(msg.err_code)))

\* serialize_message: serde_json::to_string, which escapes a line feed
\* inside a string, so the check for '\n' finds none
serialize_message(msg) == [ok |-> TRUE, json |-> ToJson(msg)]

\* a SuccessEnvelope whose data member may be absent
SuccessRequired_DataOptional == {"ok", "request_id", "protocol_version"}

\* the members that #[derive(Deserialize)] of SuccessEnvelope requires:
\* truncated has a default and metrics is an Option
SuccessRequired == {"ok", "request_id", "protocol_version", "data"}
DecisionRequired == {"ok", "request_id", "protocol_version", "decision_required"}
ErrorRequired == {"ok", "request_id", "protocol_version", "err", "err_code"}

\* the three members every envelope has parse
CommonParses(json) ==
    /\ ParseBool(json["ok"]).ok
    /\ ParseString(json["request_id"]).ok
    /\ ParseU32(json["protocol_version"]).ok

\* Deserialize of each envelope from an object; unknown members are ignored
AsSuccess(json) ==
    IF SuccessRequired \subseteq DOMAIN json /\ CommonParses(json)
       /\ ("truncated" \in DOMAIN json => ParseBool(json["truncated"]).ok)
    THEN [ok |-> TRUE,
          value |-> [NoMsg EXCEPT !.variant = "Success",
                        !.ok = ParseBool(json["ok"]).val,
                        !.request_id = ParseString(json["request_id"]).val,
                        !.protocol_version = ParseU32(json["protocol_version"]).val,
                        !.data = IF "data" \in DOMAIN json THEN json["data"] ELSE "null",
                        !.truncated = IF "truncated" \in DOMAIN json
                                      THEN ParseBool(json["truncated"]).val ELSE FALSE,
                        !.metrics = IF "metrics" \in DOMAIN json
                                    THEN json["metrics"] ELSE "None"]]
    ELSE [ok |-> FALSE, value |-> NoMsg]

AsDecision(json) ==
    IF DecisionRequired \subseteq DOMAIN json /\ CommonParses(json)
       /\ ParseString(json["decision_required"].reason).ok
       /\ ParseU32(json["decision_required"].content_len).ok
       /\ \A i \in 1..Len(json["decision_required"].options) :
              ParseString(json["decision_required"].options[i]).ok
    THEN [ok |-> TRUE,
          value |-> [NoMsg EXCEPT !.variant = "Decision",
                        !.ok = ParseBool(json["ok"]).val,
                        !.request_id = ParseString(json["request_id"]).val,
                        !.protocol_version = ParseU32(json["protocol_version"]).val,
                        !.decision_required =
                            [reason |-> ParseString(json["decision_required"].reason).val,
                             content_len |->
                                 ParseU32(json["decision_required"].content_len).val,
                             options |->
                                 [i \in 1..Len(json["decision_required"].options) |->
                                     ParseString(json["decision_required"].options[i]).val]]]]
    ELSE [ok |-> FALSE, value |-> NoMsg]

AsError(json) ==
    IF ErrorRequired \subseteq DOMAIN json /\ CommonParses(json)
       /\ ParseString(json["err"]).ok
       /\ ParseString(json["err_code"]).ok
       /\ ParseString(json["err_code"]).val \in ErrorCodes
    THEN [ok |-> TRUE,
          value |-> [NoMsg EXCEPT !.variant = "Error",
                        !.ok = ParseBool(json["ok"]).val,
                        !.request_id = ParseString(json["request_id"]).val,
                        !.protocol_version = ParseU32(json["protocol_version"]).val,
                        !.err = ParseString(json["err"]).val,
                        !.err_code = ParseString(json["err_code"]).val]]
    ELSE [ok |-> FALSE, value |-> NoMsg]

\* deserialize_message::<Response>: Response is #[serde(untagged)], so the
\* variants are tried in the order Success, Decision, Error and the first
\* that deserializes is the result
deserialize_response(json) ==
    IF AsSuccess(json).ok THEN AsSuccess(json)
    ELSE IF AsDecision(json).ok THEN AsDecision(json)
    ELSE AsError(json)

NoParsed == [ok |-> FALSE, value |-> NoMsg]

\* the inputs of the constructors
RequestIds == {"", "unknown", "r1"}
DataValues == {"null", "{}", "{\"count\":42}", "{\"decision_required\":null}",
               "{\"err\":\"x\",\"err_code\":\"NOT_FOUND\"}"}
Responses ==
    {Response_success(id, d) : id \in RequestIds, d \in DataValues}
    \cup {Response_error(id, e, code) :
            id \in RequestIds, e \in {"", "Invalid request"}, code \in ErrorCodes}
    \cup {Response_decision(id, r, n, o) :
            id \in RequestIds, r \in {"", "too large"}, n \in {0, 20000},
            o \in {<<>>, <<"full", "truncate">>}}

\* a handler builds a Response
BuildResponse(r) ==
    /\ pmsg = NoMsg
    /\ pmsg' = r
    /\ UNCHANGED <<pline, pparsed>>
    /\ UNCHANGED <<connVars, indexVars, watchVars, queryVars, clientVars, indexerVars,
                   statusVars, collectVars, cliVars>>

\* server.rs:208: serialize_message(&response)?
SerializeResponse ==
    /\ pmsg # NoMsg
    /\ pline = NoWire
    /\ serialize_message(pmsg).ok
    /\ pline' = serialize_message(pmsg).json
    /\ UNCHANGED <<pmsg, pparsed>>
    /\ UNCHANGED <<connVars, indexVars, watchVars, queryVars, clientVars, indexerVars,
                   statusVars, collectVars, cliVars>>

\* transport.rs:102: deserialize_message(line)
DeserializeResponse ==
    /\ pline # NoWire
    /\ pparsed = NoParsed
    /\ pparsed' = deserialize_response(pline)
    /\ UNCHANGED <<pmsg, pline>>
    /\ UNCHANGED <<connVars, indexVars, watchVars, queryVars, clientVars, indexerVars,
                   statusVars, collectVars, cliVars>>

ProtoNext ==
    \/ \E r \in Responses : BuildResponse(r)
    \/ SerializeResponse
    \/ DeserializeResponse

-----------------------------------------------------------------------------
(* The status detection as a function of the item's kind, its span and the
   file: lib.rs:553-558, 705-739 *)

MaxFileLines == 3

\* what a line of source may contain
LineKinds == { {}, {"unimplemented!"}, {"todo!"}, {"FIXME"}, {"TODO", "unimplemented!"} }

RECURSIVE FilesOfLen(_)
FilesOfLen(n) ==
    IF n = 0 THEN { <<>> }
    ELSE {Append(f, l) : f \in FilesOfLen(n - 1), l \in LineKinds}

\* the disk: FileA with up to MaxFileLines lines, or no readable FileA
StatusDisks ==
    { {} } \cup
    { {[filename |-> FileA, content |-> "a0", lines |-> f]} :
          f \in UNION {FilesOfLen(n) : n \in 0..MaxFileLines} }

\* extract_symbol computes the status of the item
DetectStatus ==
    /\ sstatus = ""
    /\ sstatus' = StatusFor([NoKrate EXCEPT !.disk = sdisk], skind, sspan)
    /\ UNCHANGED <<sdisk, skind, sspan>>
    /\ UNCHANGED <<connVars, indexVars, watchVars, queryVars, clientVars, protoVars,
                   indexerVars, collectVars, cliVars>>

-----------------------------------------------------------------------------
(* FileWatcher::collect_changes as a function of the events in rx:
   watcher.rs:39-96 *)

MaxBatch == 3

\* paths of a workspace: two that qualify, one without the extension, one
\* under target, one under a hidden directory
CollectPaths == { <<"src", "lib.rs">>, <<"src", "a.rs">>, <<"src", "notes.md">>,
                  <<"target", "x.rs">>, <<".git", "hook.rs">> }
CollectEvents == {[kind |-> k, path |-> p] : k \in EventKinds, p \in CollectPaths}

RECURSIVE EventBatches(_)
EventBatches(n) ==
    IF n = 0 THEN { <<>> }
    ELSE EventBatches(n - 1)
         \cup {Append(b, ev) : b \in {x \in EventBatches(n - 1) : Len(x) = n - 1},
                               ev \in CollectEvents}

\* one call: within the debounce window the loop takes the first n events
\* of rx (all of them, or fewer when the window ends first)
CollectChanges(n) ==
    /\ ~collected
    /\ n <= Len(raw_events)
    /\ collected' = TRUE
    /\ consumed' = SubSeq(raw_events, 1, n)
    /\ changed_files' = collect_changes(SubSeq(raw_events, 1, n))
    /\ raw_events' = SubSeq(raw_events, n + 1, Len(raw_events))
    /\ UNCHANGED <<wpc, wchan, fs_changed, delivered, reindexed, mpc, mainVars>>
    /\ UNCHANGED <<connVars, indexVars, queryVars, clientVars, protoVars, indexerVars,
                   statusVars, cliVars>>

-----------------------------------------------------------------------------
(* The endpoint of a workspace's daemon: libs/ct-core/src/lib.rs:54-59,
   libs/ct-core/src/config.rs:101-107, 179-207 *)

\* str.replace(from, to) for one-character patterns
Replace(str, from, to) ==
    LET RECURSIVE Go(_)
        Go(i) == IF i > Len(str) THEN ""
                 ELSE (IF SubSeq(str, i, i) = from THEN to ELSE SubSeq(str, i, i)) \o Go(i + 1)
    IN Go(1)

\* the package names of the members, and the artifact names cargo rustdoc
\* may have left in target/doc for a package
MemberNames == {"ct", "ct-core", "ct-daemon", "ct_db", "a-b_c"}
ArtifactNames(name) ==
    {name \o ".json", Replace(name, "-", "_") \o ".json", Replace(name, "_", "-") \o ".json",
     "other.json", "ct.html"}

NoRustdocJson == [pc |-> "idle", status_ok |-> FALSE, ok |-> FALSE, path |-> ""]

\* the lookup of generate_rustdoc_json (ct-indexer lib.rs:231-271)
locate_rustdoc_json(name, dir, status_ok) ==
    LET json_file == name \o ".json"
        json_file_normalized == Replace(name, "_", "-") \o ".json"
    IN  IF ~status_ok THEN [ok |-> FALSE, path |-> ""]
        ELSE IF json_file \in dir THEN [ok |-> TRUE, path |-> json_file]
        ELSE IF json_file_normalized \in dir THEN [ok |-> TRUE, path |-> json_file_normalized]
        ELSE [ok |-> FALSE, path |-> ""]

ToolInit ==
    /\ member_name = "ct"
    /\ doc_dir = {}
    /\ rustdoc_json = NoRustdocJson

\* generate_rustdoc_json(member): cargo rustdoc exits with or without
\* success, having left `files` in target/doc
GenerateRustdocJson(name, files, status_ok) ==
    /\ rustdoc_json.pc = "idle"
    /\ member_name' = name
    /\ doc_dir' = files
    /\ LET found == locate_rustdoc_json(name, files, status_ok)
       IN rustdoc_json' = [pc |-> "done", status_ok |-> status_ok,
                           ok |-> found.ok, path |-> found.path]
    /\ UNCHANGED <<endpointVars, hostVars>>
    /\ UNCHANGED <<connVars, indexVars, watchVars, queryVars, clientVars, protoVars,
                   indexerVars, statusVars, collectVars>>

WorkspaceRoots == {"/w1", "/w2"}

\* the first 16 hex digits of the blake3 hash of a root; the hash is opaque,
\* so a root may have any of these
HashPrefixes == {"a1b2c3d4e5f60718", "a1b2c3d4ffffffff", "a1b2c3d5e5f60718",
                 "a7777777e5f60718", "b1b2c3d4e5f60718", "0a000000e5f60718"}

\* compute_workspace_fingerprint: format!("blake3:{}", &hash.to_hex()[..16])
compute_workspace_fingerprint(hash_hex) == "blake3:" \o SubSeq(hash_hex, 1, 16)

default_socket_path == "/tmp/ctd.sock"
default_pipe_name == "\\\\.\\pipe\\ctd"

\* &workspace_fingerprint[..8]: the first 8 bytes of the fingerprint text
FingerprintPrefix(workspace_fingerprint) == SubSeq(workspace_fingerprint, 1, 8)

\* Config::get_socket_path, Config::get_pipe_name (default configuration)
get_socket_path(platform, workspace_fingerprint) ==
    IF platform = "unix"
    THEN "/tmp/ctd-" \o FingerprintPrefix(workspace_fingerprint) \o ".sock"
    ELSE default_socket_path
get_pipe_name(platform, workspace_fingerprint) ==
    IF platform = "windows"
    THEN "\\\\.\\pipe\\ctd-" \o FingerprintPrefix(workspace_fingerprint)
    ELSE default_pipe_name

\* Config::get_effective_transport with transport = Auto, and the endpoint
\* TransportStream::connect and start_server use for it
get_effective_transport(platform) == IF platform = "unix" THEN "Unix" ELSE "Pipe"
EndpointOf(platform, workspace_fingerprint) ==
    IF get_effective_transport(platform) = "Unix"
    THEN get_socket_path(platform, workspace_fingerprint)
    ELSE get_pipe_name(platform, workspace_fingerprint)

\* a client or a daemon of workspace w computes its endpoint
ComputeEndpoint(w) ==
    /\ endpoint[w] = ""
    /\ endpoint' = [endpoint EXCEPT ![w] = EndpointOf(os, ws_fingerprint[w])]
    /\ UNCHANGED <<os, ws_fingerprint, hostVars, toolVars>>
    /\ UNCHANGED <<connVars, indexVars, watchVars, queryVars, clientVars, protoVars,
                   indexerVars, statusVars, collectVars>>

-----------------------------------------------------------------------------
(* One workspace on a Unix host: its daemon processes, its socket file and
   a `ct daemon start` process.  bins/ct/src/commands.rs:325-428,
   bins/ct/src/client.rs:13-65, bins/ct-daemon/src/server.rs:38-53 *)

\* number of daemon processes the host model can hold
MaxDaemons == 3
Daemons == 1..MaxDaemons

\* the number of verification attempts of daemon_start (commands.rs:399)
VerifyAttempts == 5

\* exit codes (libs/ct-core/src/utils.rs:72-78)
EXIT_OK == 0
EXIT_INVALID_ARGS == 2
EXIT_OVER_MAX == 3
EXIT_DAEMON_UNAVAILABLE == 4
EXIT_INDEX_MISMATCH == 5
EXIT_INTERNAL_ERROR == 6
EXIT_DAEMON_ALREADY_RUNNING == 7
NoExit == 255

CtIdle == [pc |-> "idle", phase |-> "", attempt |-> 0, conn_to |-> 0, spawned |-> 0,
           exit_code |-> NoExit, running |-> 0]

\* UnixStream::connect(path) succeeds for daemon d: the file names d's
\* listener and d is listening
Reachable(d) == daemons[d] = "listening" /\ sockfile = d

\* a process slot for a new daemon
FreeDaemons == {d \in Daemons : daemons[d] = "none"}

\* a user starts ct-daemon for the workspace (main.rs:38)
UserStartsDaemon(d) ==
    /\ d \in FreeDaemons
    /\ daemons' = [daemons EXCEPT ![d] = "starting"]
    /\ UNCHANGED <<sockfile, ct, endpointVars, run, toolVars>>
    /\ UNCHANGED <<connVars, indexVars, watchVars, queryVars, clientVars, protoVars,
                   indexerVars, statusVars, collectVars>>

\* start_server, Transport::Unix (server.rs:38-53): the existing socket file
\* is removed, then UnixListener::bind creates the file for this listener
DaemonStartServer(d) ==
    /\ daemons[d] = "starting"
    /\ daemons' = [daemons EXCEPT ![d] = "listening"]
    /\ sockfile' = d
    /\ UNCHANGED <<ct, endpointVars, run, toolVars>>
    /\ UNCHANGED <<connVars, indexVars, watchVars, queryVars, clientVars, protoVars,
                   indexerVars, statusVars, collectVars>>

\* a daemon ends: main returns an error before start_server (main.rs:67-85),
\* or the shutdown signal arrives (main.rs:93-122); the socket file stays
DaemonEnds(d) ==
    /\ daemons[d] \in {"starting", "listening"}
    /\ daemons' = [daemons EXCEPT ![d] = "exited"]
    /\ UNCHANGED <<sockfile, ct, endpointVars, run, toolVars>>
    /\ UNCHANGED <<connVars, indexVars, watchVars, queryVars, clientVars, protoVars,
                   indexerVars, statusVars, collectVars>>

\* `ct daemon start` is issued (commands.rs:325-331); running records the
\* daemon reachable at that moment, 0 for none
CtDaemonStart ==
    /\ ct.pc = "idle"
    /\ ct' = [CtIdle EXCEPT !.pc = "remove_socket",
                            !.running = IF \E d \in Daemons : Reachable(d)
                                        THEN CHOOSE d \in Daemons : Reachable(d) ELSE 0]
    /\ UNCHANGED <<sockfile, daemons, endpointVars, run, toolVars>>
    /\ UNCHANGED <<connVars, indexVars, watchVars, queryVars, clientVars, protoVars,
                   indexerVars, statusVars, collectVars>>

\* commands.rs:344-351: "Remove existing socket file if it exists"
CtRemoveSocket ==
    /\ ct.pc = "remove_socket"
    /\ sockfile' = IF os = "unix" THEN 0 ELSE sockfile
    /\ ct' = [ct EXCEPT !.pc = "connect", !.phase = "check"]
    /\ UNCHANGED <<daemons, endpointVars, run, toolVars>>
    /\ UNCHANGED <<connVars, indexVars, watchVars, queryVars, clientVars, protoVars,
                   indexerVars, statusVars, collectVars>>

\* the process after CtClient::connect returned Err in phase `phase`:
\* commands.rs:354 falls through to the spawn; commands.rs:419-421 counts
\* the attempt, and after the last one daemon_start returns EXIT_OK (427)
AfterConnectErr(c) ==
    IF c.phase = "check" THEN [c EXCEPT !.pc = "spawn", !.conn_to = 0]
    ELSE IF c.attempt + 1 < VerifyAttempts
         THEN [c EXCEPT !.pc = "connect", !.attempt = c.attempt + 1, !.conn_to = 0]
    ELSE [c EXCEPT !.pc = "done", !.exit_code = EXIT_OK, !.conn_to = 0]

\* CtClient::connect, first IpcClient::connect (client.rs:19-23): on failure,
\* with autostart (the default), start_daemon spawns ct-daemon; spawn_ok is
\* the outcome of Command::spawn
CtConnect(spawn_ok, d) ==
    /\ ct.pc = "connect"
    /\ IF \E e \in Daemons : Reachable(e)
       THEN /\ Reachable(d)
            /\ ct' = [ct EXCEPT !.pc = "diag", !.conn_to = d]
            /\ UNCHANGED daemons
       ELSE IF spawn_ok
       THEN /\ d \in FreeDaemons
            /\ daemons' = [daemons EXCEPT ![d] = "starting"]
            /\ ct' = [ct EXCEPT !.pc = "connect_again", !.spawned = ct.spawned + 1]
       ELSE /\ d = 1
            /\ ct' = AfterConnectErr(ct)
            /\ UNCHANGED daemons
    /\ UNCHANGED <<sockfile, endpointVars, run, toolVars>>
    /\ UNCHANGED <<connVars, indexVars, watchVars, queryVars, clientVars, protoVars,
                   indexerVars, statusVars, collectVars>>

\* client.rs:25-32: after the sleep, the second IpcClient::connect
CtConnectAgain(d) ==
    /\ ct.pc = "connect_again"
    /\ IF \E e \in Daemons : Reachable(e)
       THEN /\ Reachable(d)
            /\ ct' = [ct EXCEPT !.pc = "diag", !.conn_to = d]
       ELSE /\ d = 1
            /\ ct' = AfterConnectErr(ct)
    /\ UNCHANGED <<sockfile, daemons, endpointVars, run, toolVars>>
    /\ UNCHANGED <<connVars, indexVars, watchVars, queryVars, clientVars, protoVars,
                   indexerVars, statusVars, collectVars>>

\* client.send_command(Command::Diag) on the open connection: Success while
\* the daemon runs (commands.rs:355-361, 406-418)
CtDiag ==
    /\ ct.pc = "diag"
    /\ ct' = IF daemons[ct.conn_to] = "listening"
             THEN [ct EXCEPT !.pc = "done",
                             !.exit_code = IF ct.phase = "check"
                                           THEN EXIT_DAEMON_ALREADY_RUNNING ELSE EXIT_OK]
             ELSE AfterConnectErr(ct)
    /\ UNCHANGED <<sockfile, daemons, endpointVars, run, toolVars>>
    /\ UNCHANGED <<connVars, indexVars, watchVars, queryVars, clientVars, protoVars,
                   indexerVars, statusVars, collectVars>>

\* commands.rs:363-393: cmd.spawn()?; an Err leaves through main (main.rs:211-214)
CtSpawn(spawn_ok, d) ==
    /\ ct.pc = "spawn"
    /\ IF spawn_ok
       THEN /\ d \in FreeDaemons
            /\ daemons' = [daemons EXCEPT ![d] = "starting"]
            /\ ct' = [ct EXCEPT !.pc = "connect", !.phase = "verify", !.attempt = 0,
                                !.spawned = ct.spawned + 1]
       ELSE /\ d = 1
            /\ ct' = [ct EXCEPT !.pc = "done", !.exit_code = EXIT_INVALID_ARGS]
            /\ UNCHANGED daemons
    /\ UNCHANGED <<sockfile, endpointVars, run, toolVars>>
    /\ UNCHANGED <<connVars, indexVars, watchVars, queryVars, clientVars, protoVars,
                   indexerVars, statusVars, collectVars>>

\* a query command of the client before it runs
RunIdle == [pc |-> "idle", cmd |-> "", outcome |-> "", resp |-> NoMsg, exit_code |-> NoExit]

\* print_response (commands.rs:279-306), to which print_find_response and
\* the other printers pass every response that is not a Success
print_response(rsp) ==
    CASE rsp.variant = "Success"  -> EXIT_OK
      [] rsp.variant = "Decision" -> EXIT_OVER_MAX
      [] OTHER ->
           CASE rsp.err_code = "INVALID_ARG"        -> EXIT_INVALID_ARGS
             [] rsp.err_code = "DAEMON_UNAVAILABLE" -> EXIT_DAEMON_UNAVAILABLE
             [] rsp.err_code = "INDEX_MISMATCH"     -> EXIT_INDEX_MISMATCH
             [] OTHER                                    -> EXIT_INTERNAL_ERROR

\* main (bins/ct/src/main.rs:205-218): the code of Ok(code), and
\* EXIT_INVALID_ARGS for every Err
main_exit(result) == IF result.ok THEN result.code ELSE EXIT_INVALID_ARGS

\* a query command starts: CtClient::connect() (commands.rs:22-25); a
\* failure returns Ok(EXIT_DAEMON_UNAVAILABLE)
RunCommand(cmd, connected) ==
    /\ run.pc = "idle"
    /\ run' = IF connected
              THEN [run EXCEPT !.pc = "connected", !.cmd = cmd]
              ELSE [run EXCEPT !.pc = "done", !.cmd = cmd, !.outcome = "connect_failed",
                               !.exit_code = main_exit([ok |-> TRUE,
                                                        code |-> EXIT_DAEMON_UNAVAILABLE])]
    /\ UNCHANGED <<sockfile, daemons, ct, endpointVars, toolVars>>
    /\ UNCHANGED <<connVars, indexVars, watchVars, queryVars, clientVars, protoVars,
                   indexerVars, statusVars, collectVars>>

\* client.send_command(cmd).await? fails in the transport (commands.rs:37):
\* the `?` returns the Err to main
RunTransportFails(stage) ==
    /\ run.pc = "connected"
    /\ run' = [run EXCEPT !.pc = "done", !.outcome = stage,
                          !.exit_code = main_exit([ok |-> FALSE, code |-> 0])]
    /\ UNCHANGED <<sockfile, daemons, ct, endpointVars, toolVars>>
    /\ UNCHANGED <<connVars, indexVars, watchVars, queryVars, clientVars, protoVars,
                   indexerVars, statusVars, collectVars>>

\* the response arrives and is printed (commands.rs:37-38)
RunResponse(r) ==
    /\ run.pc = "connected"
    /\ run' = [run EXCEPT !.pc = "done", !.outcome = "response", !.resp = r,
                          !.exit_code = main_exit([ok |-> TRUE, code |-> print_response(r)])]
    /\ UNCHANGED <<sockfile, daemons, ct, endpointVars, toolVars>>
    /\ UNCHANGED <<connVars, indexVars, watchVars, queryVars, clientVars, protoVars,
                   indexerVars, statusVars, collectVars>>

QueryCommands == {"find", "doc", "status", "export"}

RunNext ==
    \/ \E cmd \in QueryCommands : \E connected \in BOOLEAN : RunCommand(cmd, connected)
    \/ \E stage \in {"send_failed", "read_failed"} : RunTransportFails(stage)
    \/ \E r \in Responses : RunResponse(r)

HostNext ==
    \/ \E d \in Daemons : UserStartsDaemon(d)
    \/ \E d \in Daemons : DaemonStartServer(d)
    \/ \E d \in Daemons : DaemonEnds(d)
    \/ CtDaemonStart
    \/ CtRemoveSocket
    \/ \E spawn_ok \in BOOLEAN : \E d \in Daemons : CtConnect(spawn_ok, d)
    \/ \E d \in Daemons : CtConnectAgain(d)
    \/ CtDiag
    \/ \E spawn_ok \in BOOLEAN : \E d \in Daemons : CtSpawn(spawn_ok, d)

-----------------------------------------------------------------------------
(* Initial states and specifications *)

ConnInit ==
    /\ inbuf = [c \in Conns |-> <<>>]
    /\ closed = [c \in Conns |-> FALSE]
    /\ cpc = [c \in Conns |-> "read"]
    /\ request = [c \in Conns |-> NoRequest]
    /\ response = [c \in Conns |-> NoResponse]
    /\ out = [c \in Conns |-> <<>>]
    /\ readlog = [c \in Conns |-> <<>>]
    /\ mutex = NoHolder
    /\ handler_log = <<>>

IndexInit ==
    /\ db = store
    /\ in_tx = FALSE
    /\ ipc = "stopped"
    /\ member_i = 0
    /\ krate = NoKrate
    /\ pending = {}
    /\ file_cache = NoCache
    /\ crate_cache = NoCache
    /\ tx_base = store
    /\ last_insert = NoInsert
    /\ cycles_ok = 0
    /\ runs = 0

WatchInit ==
    /\ wpc = "none"
    /\ wchan = <<>>
    /\ raw_events = <<>>
    /\ fs_changed = {}
    /\ delivered = {}
    /\ reindexed = {}
    /\ mpc = "spawn_watcher"
    /\ stop_results = <<>>
    /\ spc = "none"
    /\ schan = 0
    /\ parked = [c \in Conns |-> 0]
    /\ inflight = [c \in Conns |-> 0]
    /\ collected = FALSE
    /\ consumed = <<>>
    /\ changed_files = <<>>

\* a Unix host with one workspace root, no endpoint computed yet
CliInit ==
    /\ os = "unix"
    /\ ws_fingerprint = [w \in WorkspaceRoots |-> compute_workspace_fingerprint("a1b2c3d4e5f60718")]
    /\ endpoint = [w \in WorkspaceRoots |-> ""]
    /\ sockfile = 0
    /\ daemons = [d \in Daemons |-> "none"]
    /\ ct = CtIdle
    /\ run = RunIdle
    /\ ToolInit

QueryInit ==
    /\ qreq = NoCommand
    /\ qresp = NoOutcome
    /\ config = DefaultConfig

ClientInit ==
    /\ kpc = [c \in Conns |-> "idle"]
    /\ cread = [c \in Conns |-> 0]
    /\ cret = [c \in Conns |-> <<>>]
    /\ pmsg = NoMsg
    /\ pline = NoWire
    /\ pparsed = NoParsed

\* main.rs:70: Indexer::new(workspace_root, db), the only construction in the daemon
IndexerInit ==
    /\ indexer = IndexerNew
    /\ sdisk = {}
    /\ skind = ""
    /\ sspan = NoSpan
    /\ sstatus = ""

\* the Indexer of a program that uses the library with with_filters
IndexerConfigs == {with_filters(NoName, NoName, d) : d \in BOOLEAN}
                  \cup {with_filters("b", NoName, TRUE)}

\* the store file before the daemon's first run: it does not exist
Init == store = EmptyStore /\ ConnInit /\ IndexInit /\ WatchInit /\ QueryInit /\ ClientInit /\ CliInit /\ IndexerInit

\* the daemon before its first run, configured with small limits
QueryStoreInit ==
    /\ store = EmptyStore
    /\ ConnInit /\ IndexInit /\ WatchInit /\ ClientInit /\ CliInit /\ IndexerInit
    /\ qreq = NoCommand
    /\ qresp = NoOutcome
    /\ config = SmallConfig

\* the store file while the server runs: opened by main (schema created),
\* or removed from disk since
ServingInit ==
    /\ store \in {EmptyStore, DatabaseOpen(EmptyStore, TRUE).store}
    /\ ConnInit /\ IndexInit /\ WatchInit /\ QueryInit /\ ClientInit /\ CliInit /\ IndexerInit

ConnSpec  == ServingInit /\ [][ConnNext]_vars
IndexSpec == Init /\ [][IndexNext]_vars

\* the lines of the liveness check: an undecodable line, a find that opens
\* the store and a command that does not
FairLines == {l \in Lines : l.enc = "utf8" /\ l.rid \in {"", "r3", "r5"} /\ l.body # "blank"}

\* the steps of the connection task c
TaskStep(c) ==
    \/ ReadLine(c)
    \/ WriteProtocolError(c)
    \/ \E io_ok \in BOOLEAN : HandleRequest(c, io_ok)
    \/ WriteResponse(c)

ConnFairNext ==
    \/ \E c \in Conns, l \in FairLines : ClientSend(c, l)
    \/ \E c \in Conns : ClientClose(c)
    \/ \E c \in Conns : LockState(c)
    \/ \E c \in Conns : TaskStep(c)

\* the connection tasks under the tokio runtime: a task that can take a step
\* is polled again, and the tokio Mutex hands the lock to its waiters in
\* FIFO order, so a task waiting at lock() gets it
ConnFairInit ==
    /\ store = DatabaseOpen(EmptyStore, TRUE).store
    /\ ConnInit /\ IndexInit /\ WatchInit /\ QueryInit /\ ClientInit /\ CliInit /\ IndexerInit
ConnFairSpec ==
    /\ ConnFairInit /\ [][ConnFairNext]_vars
    /\ \A c \in Conns : WF_vars(TaskStep(c)) /\ SF_vars(LockState(c))

\* index cycles of an Indexer built with with_filters
FilterInit ==
    /\ store = EmptyStore
    /\ ConnInit /\ IndexInit /\ WatchInit /\ QueryInit /\ ClientInit /\ CliInit
    /\ indexer \in IndexerConfigs
    /\ sdisk = {} /\ skind = "" /\ sspan = NoSpan /\ sstatus = ""
FilterSpec == FilterInit /\ [][IndexNext]_vars
WatchSpec == ServingInit /\ [][WatchNext]_vars
StopSpec  == ServingInit /\ [][WatchNext \/ CallStop]_vars

\* the daemon after its initial index, no connection accepted yet
ShutdownInit ==
    /\ store = DatabaseOpen(EmptyStore, TRUE).store
    /\ inbuf = [c \in Conns |-> <<>>]
    /\ closed = [c \in Conns |-> FALSE]
    /\ cpc = [c \in Conns |-> "connecting"]
    /\ request = [c \in Conns |-> NoRequest]
    /\ response = [c \in Conns |-> NoResponse]
    /\ out = [c \in Conns |-> <<>>]
    /\ readlog = [c \in Conns |-> <<>>]
    /\ mutex = NoHolder
    /\ handler_log = <<>>
    /\ IndexInit /\ WatchInit /\ QueryInit /\ ClientInit /\ CliInit /\ IndexerInit

ShutdownSpec == ShutdownInit /\ [][ShutdownNext]_vars
ClientSpec   == ShutdownInit /\ [][ClientNext]_vars
ProtoSpec    == Init /\ [][ProtoNext]_vars

\* the status detection on an item of any kind, with any span, of a file of
\* up to MaxFileLines lines or of a file that cannot be read
StatusInit ==
    /\ store = EmptyStore
    /\ ConnInit /\ IndexInit /\ WatchInit /\ QueryInit /\ ClientInit /\ CliInit
    /\ indexer = IndexerNew
    /\ sdisk \in StatusDisks
    /\ skind \in {"fn", "method", "struct"}
    /\ sspan \in {Span(FileA, b, e) : b \in 0..(MaxFileLines + 1), e \in 0..(MaxFileLines + 1)}
    /\ sstatus = ""
StatusSpec   == StatusInit /\ [][DetectStatus]_vars

\* a FileWatcher with up to MaxBatch events waiting in rx
CollectInit ==
    /\ store = EmptyStore
    /\ ConnInit /\ IndexInit /\ QueryInit /\ ClientInit /\ CliInit /\ IndexerInit
    /\ wpc = "loop" /\ wchan = <<>> /\ mpc = "waiting"
    /\ fs_changed = {} /\ delivered = {} /\ reindexed = {}
    /\ stop_results = <<>> /\ spc = "none" /\ schan = 0
    /\ parked = [c \in Conns |-> 0] /\ inflight = [c \in Conns |-> 0]
    /\ raw_events \in EventBatches(MaxBatch)
    /\ collected = FALSE /\ consumed = <<>> /\ changed_files = <<>>
\* two workspace roots with any hashes, on either platform
EndpointInit ==
    /\ store = EmptyStore
    /\ ConnInit /\ IndexInit /\ WatchInit /\ QueryInit /\ ClientInit /\ IndexerInit
    /\ os \in {"unix", "windows"}
    /\ ws_fingerprint \in [WorkspaceRoots -> {compute_workspace_fingerprint(h) : h \in HashPrefixes}]
    /\ endpoint = [w \in WorkspaceRoots |-> ""]
    /\ sockfile = 0 /\ daemons = [d \in Daemons |-> "none"] /\ ct = CtIdle
    /\ run = RunIdle
    /\ ToolInit
EndpointSpec == EndpointInit /\ [][\E w \in WorkspaceRoots : ComputeEndpoint(w)]_vars

\* the host before any daemon of the workspace has been started
HostSpec == Init /\ [][HostNext]_vars

\* one run of generate_rustdoc_json
RustdocSpec ==
    Init /\ [][\E name \in MemberNames : \E files \in SUBSET ArtifactNames(name) :
                 \E status_ok \in BOOLEAN : GenerateRustdocJson(name, files, status_ok)]_vars

\* one query command of the client
RunSpec == Init /\ [][RunNext]_vars

CollectSpec  == CollectInit /\ [][\E n \in 0..MaxBatch : CollectChanges(n)]_vars
QuerySpec == QueryStoreInit /\ [][IndexRunNext \/ QueryNext]_vars

\* once the index has returned, the daemon's own steps keep being scheduled:
\* the start of the server, the writing of a response.  Requests and changes
\* of the store file come from outside and may never come.
QueryFairSpec == QuerySpec /\ WF_vars(ServerStarted) /\ WF_vars(Answered)

\* the tokio runtime runs every spawned task that can make progress; the
\* environment (file changes, signals) is under no obligation
WatchFairSpec ==
    /\ WatchSpec
    /\ WF_vars(SpawnWatcher)
    /\ WF_vars(\E ok \in BOOLEAN : WatcherStart(ok))
    /\ WF_vars(\E ok \in BOOLEAN : StartServer(ok))
    /\ WF_vars(WatcherRecv)
    /\ WF_vars(StopWatcher)
    /\ WF_vars(StopServer)

-----------------------------------------------------------------------------
(* Properties of the connection loop (ConnSpec) *)

Decodes(l) == deserialize_message(l).ok
IsProtocolError(r) == r.kind = "Error" /\ r.err_code = "PROTOCOL_ERROR"
HandlerRanFor(c, k) ==
    \E i \in 1..Len(handler_log) : handler_log[i].conn = c /\ handler_log[i].line = k

C6_VersionMismatchRejected ==
    \A c \in Conns : \A k \in 1..Len(readlog[c]) :
        (/\ Decodes(readlog[c][k])
         /\ deserialize_message(readlog[c][k]).req.protocol_version # PROTOCOL_VERSION)
        => /\ ~HandlerRanFor(c, k)
           /\ k <= Len(out[c]) => IsProtocolError(out[c][k])

-----------------------------------------------------------------------------
(* Properties of the index cycle and the store (IndexSpec) *)

\* C2 as claimed: when index_workspace has returned an error, no
\* transaction is open on the store connection and the connection sees no
\* row beyond the committed ones.
C2_RolledBackOnFailure ==
    ipc = "returned_err" => (~in_tx /\ db = store)

\* C7 as claimed: after an index cycle every symbol row's symbol_id is
\* compute_symbol_id of its (path, kind, digest of its file row, span).
C7_SymbolIdRecomputable ==
    ipc = "returned_ok" =>
        \A i \in RowIds(store.symbols) :
            LET r == store.symbols[i] IN
            r.symbol_id = compute_symbol_id(r.path, r.kind, store.files[r.file_id].digest,
                                            r.span_start, r.span_end)

\* C8: no two symbol rows share a symbol_id, in the committed store and in
\* the indexer's view; an insert_symbol of an id already stored fails and
\* leaves the symbols table as it was.
UniqueSymbolIds(table) ==
    \A i, j \in RowIds(table) : table[i].symbol_id = table[j].symbol_id => i = j

C8_SymbolIdUnique ==
    /\ UniqueSymbolIds(store.symbols)
    /\ UniqueSymbolIds(db.symbols)
    /\ (last_insert.called /\ last_insert.dup) =>
           (~last_insert.ok /\ last_insert.unchanged)

\* insert_symbol was called with an id the table already holds
C8_Witness ==
    /\ last_insert.called /\ last_insert.dup /\ ~last_insert.ok
    /\ Len(db.symbols) >= 2

\* C9 as claimed: a package is persisted as one crates row: no two rows of
\* the committed crates table have the same name, version and fingerprint.
C9_OneCrateRowPerPackage ==
    \A i, j \in RowIds(store.crates) :
        (/\ store.crates[i].name = store.crates[j].name
         /\ store.crates[i].version = store.crates[j].version
         /\ store.crates[i].fingerprint = store.crates[j].fingerprint) => i = j

\* C10 as claimed: after an index cycle every symbol of kind method lies in
\* exactly one impls row of its file.
C10_MethodInOneImpl ==
    ipc = "returned_ok" =>
        \A i \in RowIds(store.symbols) :
            LET r == store.symbols[i] IN
            r.kind = "method" =>
                Cardinality({j \in RowIds(store.impls) :
                                /\ store.impls[j].file_id = r.file_id
                                /\ store.impls[j].line_start <= r.span_start
                                /\ r.span_end <= store.impls[j].line_end}) = 1

-----------------------------------------------------------------------------
(* Properties of the watcher (WatchFairSpec) *)

QualifyingPaths ==
    {p \in {WatchPaths[i] : i \in 1..Len(WatchPaths)} : is_rust_file(p) /\ ~is_ignored(p)}

\* C3 as claimed: while the daemon runs, a qualifying change of a source
\* file leads to a batch with that path being delivered to the daemon core
\* and to an incremental reindex that writes the store (unless the daemon
\* is shut down first).
C3_ChangeLeadsToReindex ==
    \A p \in QualifyingPaths :
        (p \in fs_changed) ~> ((p \in delivered /\ p \in reindexed) \/ mpc # "waiting")

-----------------------------------------------------------------------------
(* Properties of the request handlers and the queries (QuerySpec) *)

\* the index cycle of this run has returned Ok
Indexed == ipc \in {"returned_ok", "serving"}

\* counts were returned and the total is the sum of the three statuses
CountsAddUp(c) == c.ok => c.total = c.implemented + c.unimplemented + c.todo

\* C11 as claimed: after an index cycle, for every vis filter for which
\* get_status_counts returns counts, total = implemented + unimplemented + todo.
C11_StatusCountsAddUp ==
    Indexed => \A v \in VisValues : CountsAddUp(get_status_counts(store.symbols, v))

\* this step is one DaemonState::handle_request call
Served == qreq = NoCommand /\ qreq' # NoCommand

\* C12 as claimed: once a handler has opened the store successfully, the
\* schema_version in meta is CURRENT_VERSION, whatever the file held before.
C12_VersionCurrentAfterOpen ==
    (qresp.opened /\ qresp.kind = "Success") =>
        store.schema_version = ToString(CURRENT_VERSION)

\* the meta row of s records a version below CURRENT_VERSION
RecordsLowerVersion(s) ==
    s.schema_version # NoMeta /\ get_schema_version(s) < CURRENT_VERSION

\* C13 as claimed: a request whose handler opens a readable store file that
\* records a schema_version below CURRENT_VERSION is answered with an Error
\* envelope with err_code INDEX_MISMATCH (the open has failed).
C13_LowerVersionIsIndexMismatch ==
    [][(/\ Served
        /\ RecordsLowerVersion(store)
        /\ qresp'.opened
        /\ qresp'.err_msg # "Database error: Sqlite") =>
          (qresp'.kind = "Error" /\ qresp'.err_code = "INDEX_MISMATCH")]_vars

\* C14: a find request with neither name nor path is answered with an Error
\* envelope with err_code INVALID_ARG, the handler has not opened the store
\* and the store file is as it was.
C14_FindWithoutArgIsInvalidArg ==
    [][(Served /\ qreq'.cmd = "find" /\ qreq'.name = NoName /\ qreq'.path = NoName) =>
          (/\ qresp'.kind = "Error"
           /\ qresp'.err_code = "INVALID_ARG"
           /\ ~qresp'.opened
           /\ store' = store)]_vars

\* such a request answered while the store file does not exist (an open
\* would have created it)
C14_Witness ==
    /\ qreq.cmd = "find" /\ qreq.name = NoName /\ qreq.path = NoName
    /\ qresp.err_code = "INVALID_ARG"
    /\ store = EmptyStore

\* the status filter the matrix gives for each of the nine combinations of
\* the two flags (NoName: no status filter)
StatusMatrix(unimplemented, todo) ==
    CASE unimplemented = "true" /\ todo = "true" -> NoName
      [] unimplemented = "true" /\ todo \in {"None", "false"} -> "unimplemented"
      [] unimplemented \in {"None", "false"} /\ todo = "true" -> "todo"
      [] unimplemented \in {"None", "false"} /\ todo \in {"None", "false"} -> "implemented"

\* the rows of a table with a name containing pattern as a literal
\* case-insensitive substring that pass the kind, vis and status filters
LiteralMatches(table, pattern, kind, vis, status) ==
    {i \in RowIds(table) :
        /\ Contains(FoldCase(table[i].name), FoldCase(pattern))
        /\ kind # NoName => table[i].kind = kind
        /\ (vis # NoName /\ vis # "all") => table[i].visibility = vis
        /\ status # NoName => table[i].status = status}

\* C15: the items of a find with name are the symbols found under the
\* status filter that the matrix gives for the request's two flags.
C15_FindStatusMatrix ==
    (qreq.cmd = "find" /\ qreq.name # NoName /\ qresp.kind = "Success") =>
        qresp.items =
            FindItems(find_symbols_by_name(store.symbols, qreq.name, qreq.kind, qreq.vis,
                                           StatusMatrix(qreq.unimplemented, qreq.todo),
                                           config.max_list))

\* a find with unimplemented = true, todo = false on a store holding
\* symbols of the three statuses: only the unimplemented one is returned
C15_Witness ==
    /\ qreq.cmd = "find" /\ qreq.name = ""
    /\ qreq.unimplemented = "true" /\ qreq.todo = "false"
    /\ qresp.kind = "Success"
    /\ {store.symbols[i].status : i \in RowIds(store.symbols)}
           = {"implemented", "unimplemented", "todo"}
    /\ Len(qresp.items) = 1

\* C16 as claimed: the items of a status response are the symbols of the
\* requested visibility whose status the matrix allows for the request's
\* flags (absent counting as false), in path order, up to max_list.
C16_StatusItemsMatrix ==
    (qreq.cmd = "status" /\ qresp.kind = "Success"
        /\ qreq.vis \in {NoName, "all", "public", "private"}) =>
        LET status == StatusMatrix(qreq.unimplemented, qreq.todo)
            rows == {i \in RowIds(store.symbols) :
                        /\ (qreq.vis # NoName /\ qreq.vis # "all")
                               => store.symbols[i].visibility = qreq.vis
                        /\ status # NoName => store.symbols[i].status = status}
        IN  qresp.items =
                StatusItemsOf(Limit(OrderBy(store.symbols, rows, "path"), config.max_list))

\* C17 as claimed: the items of a find with name are the first max_list
\* symbols, in (name, path, span_start) order, among those whose name
\* contains the pattern as a literal case-insensitive substring and that
\* pass the kind, vis and status filters.
C17_FindLiteralSubstring ==
    (qreq.cmd = "find" /\ qreq.name # NoName /\ qresp.kind = "Success") =>
        LET rows == LiteralMatches(store.symbols, qreq.name, qreq.kind, qreq.vis,
                                   status_filter(qreq.unimplemented, qreq.todo))
            first == Limit(OrderBy(store.symbols, rows, "name, path, span_start"), config.max_list)
        IN  qresp.items = FindItems(first)

\* C18 as claimed: a doc request for a path that no stored symbol has is
\* answered with Error NOT_FOUND; for a stored path the response carries
\* the stored symbol's path and signature.
C18_DocLooksUpPath ==
    qreq.cmd = "doc" =>
        LET found == find_symbol_by_path(store.symbols, qreq.path) IN
        IF found = <<>>
        THEN qresp.kind = "Error" /\ qresp.err_code = "NOT_FOUND"
        ELSE /\ qresp.kind = "Success"
             /\ qresp.symbol.path = found[1].path
             /\ qresp.symbol.signature = found[1].signature

\* C19 as claimed: an export whose serialized bundle is longer than
\* max_context_size is answered with a Decision-required envelope, never
\* with a Success envelope carrying the bundle.
C19_OversizedExportNeedsDecision ==
    (qreq.cmd = "export" /\ Len(BundleJson(qreq.path)) > config.max_context_size) =>
        (qresp.kind = "Decision" /\ qresp.bundle = "")

\* C20 as claimed: a find or status request whose vis is present and not
\* one of public, private, all is answered (the store file being readable)
\* with Error INVALID_ARG.
C20_InvalidVisIsInvalidArg ==
    (qreq.cmd \in {"find", "status"}
        /\ qreq.vis \notin {NoName, "public", "private", "all"}
        /\ qresp.err_msg # "Database error: Sqlite") =>
        (qresp.kind = "Error" /\ qresp.err_code = "INVALID_ARG")

\* the filters of the index cycles the daemon runs: main builds its Indexer
\* with Indexer::new (main.rs:70), the only Indexer of the process
CycleFilters == IndexerNew

\* a reindex request was answered with success, its filters are not those
\* of the cycles run so far, and n cycles have completed
ReindexAccepted(n) ==
    /\ qreq.cmd = "reindex"
    /\ qresp.kind = "Success"
    /\ with_filters(qreq.module, qreq.struct_name, qreq.include_derives) # CycleFilters
    /\ cycles_ok = n

\* C21 as claimed: after a reindex request is answered with success, an
\* index cycle using its filters has completed or eventually completes; when
\* no cycle so far used these filters, a further cycle must complete.
C21_ReindexRunsCycle ==
    \A n \in 0..MaxRuns : ReindexAccepted(n) ~> (cycles_ok > n)

-----------------------------------------------------------------------------
(* Properties of WatcherHandle::stop (StopSpec) *)

\* C22 as claimed: stop may be called any number of times in any
\* interleaving with the watcher task, and every call returns Ok; in
\* particular every call that follows a first successful call returns Ok.
C22_StopIdempotent ==
    (stop_results # <<>> /\ stop_results[1] = "Ok")
        => \A i \in 1..Len(stop_results) : stop_results[i] = "Ok"

-----------------------------------------------------------------------------
(* Properties of the shutdown (ShutdownSpec) *)

\* C23 as claimed: a request that a connection task had read when the
\* shutdown signal was received has its response line written before the
\* daemon process exits.
C23_InflightDrained ==
    mpc = "gone" => \A c \in Conns : inflight[c] <= Len(out[c])

-----------------------------------------------------------------------------
(* Properties of the IpcClient (ClientSpec) *)

-----------------------------------------------------------------------------
(* Properties of the codec (ProtoSpec) *)

\* C25 as claimed: a Response built by Response::success, Response::decision
\* or Response::error, serialized and deserialized again, is an envelope of the
\* same variant with equal field values.
C25_ResponseRoundTrip ==
    pparsed # NoParsed => (pparsed.ok /\ pparsed.value = pmsg)

\* a decision response has been through serialize_message and deserialize_message
C25_Witness ==
    /\ pmsg.variant = "Decision"
    /\ pmsg.decision_required.options # <<>>
    /\ pparsed.ok


\* C26 as claimed: a symbol read back from the store by find_symbols_by_name
\* or find_symbol_by_path has the symbol_id that was given to insert_symbol
\* for its row.
C26_SymbolIdReadBack ==
    \A i \in RowIds(store.symbols) :
        LET row == store.symbols[i]
            by_path == find_symbol_by_path(store.symbols, row.path)
            by_name == find_symbols_by_name(store.symbols, row.name, NoName, NoName,
                                            NoName, Len(store.symbols))
        IN  /\ by_path # <<>>
            /\ \E j \in RowIds(store.symbols) :
                  /\ store.symbols[j].path = by_path[1].path
                  /\ store.symbols[j].symbol_id = by_path[1].symbol_id
            /\ \E k \in 1..Len(by_name) :
                  by_name[k].path = row.path /\ by_name[k].symbol_id = row.symbol_id


-----------------------------------------------------------------------------
(* Properties of index cycles with filters (FilterSpec) *)

\* the rows of a symbols table that a derive-method item leaves: kind
\* method or fn, name in DERIVE_METHODS
DeriveRows(table) ==
    {i \in RowIds(table) : table[i].kind \in {"method", "fn"}
                           /\ table[i].name \in DERIVE_METHODS}

\* the local function items of the crate being processed that carry a
\* derive-method name and have been through the loop
DeriveItemsDone ==
    IF ipc = "items"
    THEN {it \in krate.index : /\ it.crate_id = 0
                               /\ it.inner = "Function"
                               /\ it.name \in DERIVE_METHODS
                               /\ it.id \notin pending}
    ELSE {}

\* C27 as claimed: with include_derives = false neither the store nor the open
\* transaction holds a method or fn symbol named like a derive method; with
\* include_derives = true (and no module or struct filter) every such item
\* that the loop has passed has its row.
C27_DeriveFilter ==
    /\ ~indexer.include_derives =>
          DeriveRows(store.symbols) = {} /\ DeriveRows(db.symbols) = {}
    /\ (indexer.include_derives /\ indexer.filter_module = NoName) =>
          \A it \in DeriveItemsDone :
              \E i \in DeriveRows(db.symbols) :
                  /\ db.symbols[i].name = it.name
                  /\ db.symbols[i].span_start = it.span.begin

\* with the default configuration the loop has passed a `clone` method
C27_Witness == ~indexer.include_derives /\ DeriveItemsDone # {}

\* with include_derives the row of a `clone` method is in the store after the commit
DerivesIncluded ==
    indexer.include_derives /\ ipc = "returned_ok" /\ DeriveRows(store.symbols) # {}


-----------------------------------------------------------------------------
(* Properties of the status detection (StatusSpec) *)

\* the markers in the lines span_start..span_end (1-based, inclusive) of the
\* file, as far as the file has them
SpanText ==
    IF sdisk = {} THEN {}
    ELSE LET lines == (CHOOSE f \in sdisk : TRUE).lines
         IN  UNION {lines[i] : i \in {j \in 1..Len(lines) : sspan.begin <= j /\ j <= sspan.end}}

\* the status the classification rule gives
RuleStatus ==
    IF skind \notin {"fn", "method"} \/ sdisk = {} THEN "implemented"
    ELSE IF "unimplemented!" \in SpanText THEN "unimplemented"
    ELSE IF SpanText \cap {"todo!", "TODO", "FIXME"} # {} THEN "todo"
    ELSE "implemented"

-----------------------------------------------------------------------------
(* Properties of the canonical path (IndexSpec) *)

\* the path of a trait as the rustdoc document gives it, local or external
TraitPathText(k, trait_id) ==
    Join((CHOOSE p \in k.paths : p.id = trait_id).path)

\* <package>::<for_type>::<trait_path>::<name> for a trait impl,
\* <package>::<for_type>::<name> for an inherent impl
ImplItemPath(k, crate_name, it, ctx) ==
    crate_name \o "::" \o extract_type_path(k, ItemOf(k, ctx.impl_id).for_) \o "::"
    \o (IF ctx.trait_id # NoId THEN TraitPathText(k, ctx.trait_id) \o "::" ELSE "")
    \o it.name

\* the items of the crate being processed that lie in an impl block and
\* have been through the loop
ImplItemsDone ==
    IF ipc = "items"
    THEN {it \in krate.index : /\ it.crate_id = 0
                               /\ it.name # NoName
                               /\ it.id \notin pending
                               /\ ImplContexts(krate, it.id) # {}}
    ELSE {}

\* C29 as claimed: the row of an item contained in an impl block has the
\* path <package>::<for_type>::<trait_path>::<name> when the impl is a trait
\* impl, of a local or of an external trait, and <package>::<for_type>::<name>
\* when the impl is inherent.
C29_ImplItemPath ==
    \A it \in ImplItemsDone :
        \A i \in RowIds(db.symbols) :
            (/\ db.symbols[i].name = it.name
             /\ db.symbols[i].kind = "method"
             /\ db.symbols[i].span_start = it.span.begin
             /\ db.symbols[i].span_end = it.span.end)
            => \E ctx \in ImplContexts(krate, it.id) :
                  db.symbols[i].path =
                      ImplItemPath(krate, Members[member_i].name, it, ctx)


-----------------------------------------------------------------------------
(* Properties of collect_changes (CollectSpec) *)

\* the paths of the consumed events of kind create, modify or remove that
\* have the extension rs and no component equal to target or starting with '.'
QualifyingConsumed ==
    {consumed[i].path : i \in {j \in 1..Len(consumed) :
        /\ consumed[j].kind \in {"Create", "Modify", "Remove"}
        /\ Extension(consumed[j].path[Len(consumed[j].path)]) = "rs"
        /\ \A c \in 1..Len(consumed[j].path) :
              /\ consumed[j].path[c] # "target"
              /\ CharAt(consumed[j].path[c], 1) # "."}}

\* C30: the list collect_changes returns is sorted, has no duplicates, and
\* holds exactly the qualifying paths of the events consumed.
C30_CollectChanges ==
    collected =>
        /\ \A i \in 1..Len(changed_files) : \A j \in 1..Len(changed_files) :
              i < j => PathLess(changed_files[i], changed_files[j])
        /\ {changed_files[i] : i \in 1..Len(changed_files)} = QualifyingConsumed

\* a call that took three events: the same path twice, out of order with a
\* second path, and returned the two paths
C30_Witness ==
    /\ collected
    /\ Len(consumed) = 3
    /\ consumed[1].path = consumed[3].path
    /\ Len(changed_files) = 2


-----------------------------------------------------------------------------
(* Properties of the endpoints (EndpointSpec) *)

\* the first 8 hex digits of a workspace fingerprint
FirstHex8(fp) == SubSeq(fp, Len("blake3:") + 1, Len("blake3:") + 8)

\* C31 as claimed: two workspaces whose fingerprints differ within their
\* first 8 hex digits get different socket paths (pipe names on Windows).
C31_DistinctEndpoints ==
    \A v \in WorkspaceRoots : \A w \in WorkspaceRoots :
        (/\ endpoint[v] # "" /\ endpoint[w] # ""
         /\ FirstHex8(ws_fingerprint[v]) # FirstHex8(ws_fingerprint[w]))
        => endpoint[v] # endpoint[w]


-----------------------------------------------------------------------------
(* Properties of the host (HostSpec) *)

\* C32 as claimed: `ct daemon start` issued while a daemon of the workspace
\* is running and reachable, and which keeps running, exits with code 7,
\* spawns no daemon process and leaves that daemon reachable.
C32_AlreadyRunning ==
    (ct.pc = "done" /\ ct.running # 0 /\ daemons[ct.running] = "listening")
    => /\ ct.exit_code = EXIT_DAEMON_ALREADY_RUNNING
       /\ ct.spawned = 0
       /\ Reachable(ct.running)

\* C39 as claimed: when a daemon's start_server begins to listen, every
\* daemon that was reachable before stays reachable; and at any time the
\* clients of the workspace reach at most one daemon.
C39_SecondDaemonKeepsFirstReachable ==
    [][ /\ \A d \in Daemons :
             (daemons[d] = "starting" /\ daemons'[d] = "listening")
             => \A e \in Daemons \ {d} :
                    (daemons[e] = "listening" /\ sockfile = e)
                    => (daemons'[e] = "listening" /\ sockfile' = e)
        /\ Cardinality({d \in Daemons : daemons'[d] = "listening" /\ sockfile' = d}) <= 1
      ]_vars


-----------------------------------------------------------------------------
(* Properties of the client's exit code (RunSpec) *)

\* the error kind of the outcome of a finished command; "ok" for a success,
\* "other" for an error code outside the five kinds
ErrorKind ==
    CASE run.outcome \in {"connect_failed", "send_failed", "read_failed"} -> "daemon_unavailable"
      [] run.resp.variant = "Success" -> "ok"
      [] run.resp.variant = "Decision" -> "decision_required"
      [] run.resp.err_code = "INVALID_ARG" -> "invalid_argument"
      [] run.resp.err_code = "DAEMON_UNAVAILABLE" -> "daemon_unavailable"
      [] run.resp.err_code = "INDEX_MISMATCH" -> "index_mismatch"
      [] run.resp.err_code = "INTERNAL_ERROR" -> "internal_error"
      [] OTHER -> "other"

\* C33 as claimed: the exit code is determined one-to-one by the error kind:
\* invalid argument 2, decision required 3, daemon unavailable (a transport
\* failure while sending or reading included) 4, index mismatch 5, internal
\* error 6, and 0 for a success only.
C33_ExitCodeByKind ==
    run.pc = "done" =>
        /\ ErrorKind = "ok" <=> run.exit_code = EXIT_OK
        /\ ErrorKind = "invalid_argument" <=> run.exit_code = EXIT_INVALID_ARGS
        /\ ErrorKind = "decision_required" <=> run.exit_code = EXIT_OVER_MAX
        /\ ErrorKind = "daemon_unavailable" <=> run.exit_code = EXIT_DAEMON_UNAVAILABLE
        /\ ErrorKind = "index_mismatch" <=> run.exit_code = EXIT_INDEX_MISMATCH
        /\ ErrorKind = "internal_error" => run.exit_code = EXIT_INTERNAL_ERROR


-----------------------------------------------------------------------------
(* Properties of the artifact lookup (RustdocSpec) *)

\* the three names under which the claim expects the artifact to be found
ClaimedNames(name) ==
    {name \o ".json", Replace(name, "-", "_") \o ".json", Replace(name, "_", "-") \o ".json"}

\* C34 as claimed: after a successful extractor run for package n the adapter
\* finds the artifact whenever it exists as n.json, as n with hyphens replaced
\* by underscores or as n with underscores replaced by hyphens, and fails only
\* when none of these exists.
C34_ArtifactFound ==
    (rustdoc_json.pc = "done" /\ rustdoc_json.status_ok) =>
        /\ rustdoc_json.ok <=> (ClaimedNames(member_name) \cap doc_dir # {})
        /\ rustdoc_json.ok => rustdoc_json.path \in ClaimedNames(member_name) \cap doc_dir


\* C35 as claimed: every response returned by handle_request, success as
\* well as error, carries the request_id of the request it answers.
C35_ResponseCarriesRequestId ==
    \A c \in Conns : \A k \in 1..Len(out[c]) :
        HandlerRanFor(c, k) => out[c][k].request_id = readlog[c][k].rid


\* C36 as claimed: the index cycle of a daemon started on a store that holds
\* a committed index completes: it does not end in an error raised by the
\* store for a row it already holds.
C36_ReindexOnPersistedStore ==
    (cycles_ok >= 1 /\ ipc = "returned_err")
        => ~(last_insert.called /\ last_insert.dup /\ ~last_insert.ok)


\* C37: across all connections at most one task is inside handle_request at
\* any time: a task is inside the handler exactly while it holds the state
\* mutex, and a task that is about to write its response no longer holds it.
C37_OneHandlerAtATime ==
    /\ Cardinality({c \in Conns : cpc[c] = "handling"}) <= 1
    /\ \A c \in Conns : (cpc[c] = "handling") <=> (mutex = c)
    /\ \A c \in Conns : cpc[c] = "write" => (mutex # c /\ response[c] # NoResponse)

\* one task is inside the handler while another has a request and waits
C37_Witness ==
    \E c, d \in Conns :
        /\ c # d
        /\ cpc[c] = "handling" /\ mutex = c
        /\ cpc[d] = "lock" /\ request[d] # NoRequest


-----------------------------------------------------------------------------
(* Liveness of the connection tasks (ConnFairSpec) *)

C40_ReadOnlyCommands ==
    [][ (qreq = NoCommand /\ qreq' # NoCommand /\ qreq'.cmd \in {"find", "status", "diag"})
            => store' = store ]_vars

=============================================================================
